---- MODULE Spec2Model ----
(***************************************************************************)
(* Model of the brainwrought pipeline (zeerafle/brainwrought):             *)
(*   - the character-to-word timing reconstruction of                      *)
(*     voice_and_timing_node (src/src/nodes/production.py),                *)
(*   - the job store and background worker of src/src/app_space.py,        *)
(*   - the LangGraph graphs wired in src/src/graphs/*.py and the           *)
(*     checkpointed run of src/src/app.py.                                 *)
(*                                                                         *)
(* Times are integers in ticks of 0.25 s, so every time of the model is a  *)
(* binary fraction of a second and the float arithmetic of the source is   *)
(* exact on it: 0.5 s is 2 ticks.                                          *)
(***************************************************************************)
EXTENDS Integers, Sequences, FiniteSets, TLC

VARIABLES
    \* ---- timing reconstruction (voice_and_timing_node, one scene) ----
    timestamps,       \* the character records of the alignment
    word_timestamps,  \* the word records built from them
    tpc,              \* "aligned" -> "grouped" -> "bridged"
    \* ---- job store and background worker (app_space.py) ----
    jobs,             \* JOBS_DIR: job id -> the job's record, NoFile when there is no file
    queue,            \* the executor's work queue (in memory)
    worker,           \* the single worker thread: the job it runs and where in run_job it is
    alive,            \* whether the application serves: the import is done, the executor exists
    crashes,          \* number of process crashes so far
    sweep,            \* the startup sweep: whether it runs, the files it has to visit
    submitting,       \* the jobs whose submit_job is between create_job and enqueue_job
    \* ---- one thread of a compiled graph (graphs/*.py, app.py) ----
    graph,            \* the graph that is invoked
    gstatus,          \* "called" (run_pipeline has not invoked the graph yet),
                      \* "running", "completed" or "failed" (an exception left it)
    tasks,            \* the nodes of the current superstep
    running,          \* the tasks that started and have not returned
    done,             \* the tasks that returned
    execs,            \* node -> times it started in this invocation
    completed,        \* the nodes that returned in this invocation
    prior,            \* the nodes that returned in earlier invocations of the thread
    invocation,       \* number of invocations of the thread so far
    checkpoint,       \* what the checkpointer holds for the thread
    input,            \* the dict the graph was invoked with
    state,            \* the State of the running graph: a set of <<key, value>> pairs
    given,            \* node -> the dict its function was called with
    writes,           \* node -> the dict it returned in this superstep
    gerror,           \* the exception that ended the invocation, NoError if there is none
    stack,            \* the invocations that wait for this one: one frame per wrapper node
    research,         \* research node -> the run of its agent/tools/respond graph
    \* ---- one call of voice_and_timing_node (nodes/production.py) ----
    scenes,               \* state["scenes"]: the scene_number and dialogue_vo of each scene
    elevenlabs_api_key,   \* whether a key is given or found in the environment
    metadata,             \* output_dir: number of a scene -> its cached audio and metadata
    vpc,                  \* where the call is: "start", "extract", "loop", "returned", "raised"
    voice_id,             \* the voice chosen for the synthesis
    scene_vo_data,        \* the scenes that have a dialogue_vo
    position,             \* number of entries of scene_vo_data handled so far
    voice_timing_results, \* the records built so far, the value of "voice_timing"
    execution,            \* 1 in the first call on this State and output_dir, 2 in the second
    previous,             \* the voice_timing the first call returned
    synthesis_calls,      \* calls of text_to_speech.convert_with_timestamps in this call
    \* ---- one call of generate_video_assets_node (nodes/production.py) ----
    scenes_list,          \* the scenes of state["asset_plan"]
    apc,                  \* where the call is: "start", "collected" (the file
                          \* names are being received), "returned", "raised"
    gen_tasks,            \* the (scene_idx, asset_key, description) to generate
    video_filenames,      \* the file names received from the Modal function so far
    updated_plan,         \* the scenes of the asset_plan the node returns
    \* ---- one graph, from its construction to the end of its run ----
    builder,              \* the graph handed to compile(): nodes, edges, label map
    engine                \* the Engine: pc, error, the wave and its counters

timingVars == <<timestamps, word_timestamps, tpc>>

jobVars == <<jobs, queue, worker, alive, crashes, sweep, submitting>>

graphVars ==
    <<graph, gstatus, tasks, running, done, execs, completed, prior, invocation, checkpoint,
      input, state, given, writes, gerror, stack, research>>

voiceVars ==
    <<scenes, elevenlabs_api_key, metadata, vpc, voice_id, scene_vo_data, position,
      voice_timing_results, execution, previous, synthesis_calls>>

assetVars == <<scenes_list, apc, gen_tasks, video_filenames, updated_plan>>

engineVars == <<builder, engine>>

vars ==
    <<timestamps, word_timestamps, tpc, jobs, queue, worker, alive, crashes, sweep,
      submitting, graph, gstatus, tasks, running, done, execs, completed, prior, invocation, checkpoint,
      input, state, given, writes, gerror, stack, research,
      scenes, elevenlabs_api_key, metadata, vpc, voice_id, scene_vo_data, position,
      voice_timing_results, execution, previous, synthesis_calls,
      scenes_list, apc, gen_tasks, video_filenames, updated_plan,
      builder, engine>>

(***************************************************************************)
(* Bounds of the model.                                                    *)
(***************************************************************************)
MaxChars == 4     \* longest character stream
MaxPause == 2     \* longest silence (ticks) between one character and the next
MaxJobs == 2      \* jobs submitted in one behaviour
MaxCrashes == 2   \* process crashes in one behaviour
MaxInvocations == 2   \* invocations of run_pipeline with one thread_id
MaxScenes == 2    \* scenes of a script
MaxWords == 3     \* words of the longest stream of spaced one-letter words

(***************************************************************************)
(* Timing reconstruction.                                                  *)
(***************************************************************************)
GapThreshold == 2   \* 0.5 s

\* The characters str.isspace() holds of.  A character that cannot be
\* written in a string here stands as its Python escape.
Whitespace ==
    {" ", "\t", "\n", "\r", "\f", "\\x0b", "\\x1c", "\\x1d", "\\x1e", "\\x1f", "\\x85",
     "\\xa0", "\\u1680", "\\u2000", "\\u2001", "\\u2002", "\\u2003", "\\u2004",
     "\\u2005", "\\u2006", "\\u2007", "\\u2008", "\\u2009", "\\u200a", "\\u2028",
     "\\u2029", "\\u202f", "\\u205f", "\\u3000"}

\* str.strip() of a one-character string: empty for whitespace.
Strip(char) == IF char \in Whitespace THEN "" ELSE char

\* The state of the grouping loop before its first iteration (word_end is
\* unbound in the source until the first non-space character assigns it).
GroupInit ==
    [word_timestamps |-> <<>>, current_word |-> "", word_start |-> 0, word_end |-> 0]

\* `if not current_word and char.strip(): word_start = ts["start"]`
WordStart(st, ts) ==
    IF st.current_word = "" /\ Strip(ts.character) /= ""
    THEN ts.start
    ELSE st.word_start

\* Mutant: the buffer-empty check is missing.
ClosesWordAlways(st, char) == char = " "

\* `if char == " ": if current_word:` -- the space closes a pending word.
ClosesWord(st, char) == char = " " /\ st.current_word /= ""

\* Mutant: the word is closed at the end of its last letter.
ClosedWordEndOfLetter(st, ts) == st.word_end

\* The end given to a word closed by the space record ts.
ClosedWordEnd(st, ts) == ts.end

\* Mutant: word_end is not updated by the characters of the word.
WordEndStale(st, ts) == st.word_end

\* The end assigned to word_end by a non-space record ts.
WordEnd(st, ts) == ts.end

\* One iteration of `for ts in timestamps`.
GroupStep(st, ts) ==
    LET char == ts.character
        ws == WordStart(st, ts)
    IN  IF char = " "
        THEN IF ClosesWord(st, char)
             THEN [st EXCEPT !.word_timestamps =
                                 Append(@, [word |-> st.current_word,
                                            start |-> ws,
                                            end |-> ClosedWordEnd(st, ts)]),
                             !.current_word = "",
                             !.word_start = ws]
             ELSE [st EXCEPT !.word_start = ws]
        ELSE [st EXCEPT !.current_word = @ \o char,
                        !.word_start = ws,
                        !.word_end = WordEnd(st, ts)]

RECURSIVE GroupLoop(_, _, _)
GroupLoop(st, tss, i) ==
    IF i > Len(tss) THEN st ELSE GroupLoop(GroupStep(st, tss[i]), tss, i + 1)

\* "Group characters into words", with the flush of the last word.
GroupChars(tss) ==
    LET st == GroupLoop(GroupInit, tss, 1)
    IN  IF st.current_word /= ""
        THEN Append(st.word_timestamps,
                    [word |-> st.current_word, start |-> st.word_start, end |-> st.word_end])
        ELSE st.word_timestamps

\* Mutant: a gap of exactly 0.5 s is bridged too.
ShouldBridgeInclusive(gap) == 0 < gap /\ gap <= GapThreshold

\* Mutant: the test `0 < gap` is missing, overlapping words are joined too.
ShouldBridgeOverlap(gap) == gap < GapThreshold

\* `if 0 < gap < 0.5`
ShouldBridge(gap) == 0 < gap /\ gap < GapThreshold

\* One iteration of the post-processing loop, on the pair (i, i + 1).
BridgeStep(ws, i) ==
    LET gap == ws[i + 1].start - ws[i].end
    IN  IF ShouldBridge(gap) THEN [ws EXCEPT ![i].end = ws[i + 1].start] ELSE ws

RECURSIVE BridgeLoop(_, _)
BridgeLoop(ws, i) ==
    IF i > Len(ws) - 1 THEN ws ELSE BridgeLoop(BridgeStep(ws, i), i + 1)

\* "Bridge small gaps between words": for i in range(len(word_timestamps) - 1).
BridgeGaps(ws) == BridgeLoop(ws, 1)

\* The silences the model draws between one character and the next, in
\* ticks: -1 is an overlap (the character starts when the previous one did).
Pauses == (0 - 1)..MaxPause

RECURSIVE StartOf(_, _)
\* Start of character i when every character lasts one tick and character k
\* starts pauses[k] ticks after the end of character k - 1 (the audio itself
\* is taken to start one tick before time 0, so the first start is >= 0).
StartOf(pauses, i) ==
    IF i = 1 THEN 1 + pauses[1] ELSE StartOf(pauses, i - 1) + 1 + pauses[i]

\* The character records of an alignment whose three parallel lists have the
\* same length: record i is characters[i] with its start and its end.
Alignment(characters, pauses) ==
    [i \in 1..Len(characters) |->
        [character |-> characters[i],
         start |-> StartOf(pauses, i),
         end |-> StartOf(pauses, i) + 1]]

(***************************************************************************)
(* The graphs.  Every graph is a langgraph StateGraph wired with           *)
(* add_edge(start, end) on single node names and then compiled.  A         *)
(* compiled graph runs in supersteps: the nodes of a superstep run         *)
(* concurrently, the superstep ends when all of them have returned, and    *)
(* the next superstep holds every node that has an edge from a node of     *)
(* this one (an edge from a single node triggers its end node by itself;   *)
(* only add_edge([a, b], c) waits for a and b together, and no graph of    *)
(* the repository uses it).                                                *)
(***************************************************************************)
START == "__start__"
END == "__end__"

MainEdges ==
    {<<START, "ingestion_pipeline">>,
     <<"ingestion_pipeline", "story_studio_pipeline">>,
     <<"story_studio_pipeline", "production_pipeline">>,
     <<"production_pipeline", END>>}

IngestionEdges ==
    {<<START, "pdf_to_pages">>,
     <<"pdf_to_pages", "structure_and_toc">>,
     <<"structure_and_toc", "key_concepts">>,
     <<"structure_and_toc", "summary">>,
     <<"key_concepts", "quiz_generator">>,
     <<"summary", "quiz_generator">>,
     <<"quiz_generator", END>>}

StoryStudioEdges ==
    {<<START, "audience_and_style_profiler">>,
     <<"audience_and_style_profiler", "hook_and_meme_concept">>,
     <<"hook_and_meme_concept", "scene_by_scene_script">>,
     <<"scene_by_scene_script", "asset_planner">>,
     <<"asset_planner", END>>}

HookMemeEdges ==
    {<<START, "social_media_trends">>,
     <<START, "language_slang">>,
     <<"social_media_trends", "hook_concept">>,
     <<"language_slang", "hook_concept">>,
     <<"social_media_trends", "meme_concept">>,
     <<"language_slang", "meme_concept">>,
     <<"hook_concept", END>>,
     <<"meme_concept", END>>}

ProductionEdges ==
    {<<START, "voice_and_timing">>,
     <<START, "generate_video_assets">>,
     <<START, "generate_meme_assets">>,
     <<"generate_video_assets", "generate_sfx">>,
     <<"voice_and_timing", "video_editor_renderer">>,
     <<"generate_meme_assets", "video_editor_renderer">>,
     <<"generate_sfx", "video_editor_renderer">>,
     <<"video_editor_renderer", "qc_and_safety">>,
     <<"qc_and_safety", "deliver_export">>,
     <<"deliver_export", END>>}

ProductionMockEdges ==
    {<<START, "voice_and_timing">>,
     <<START, "video_assets">>,
     <<"voice_and_timing", "video_editor_renderer">>,
     <<"video_assets", "video_editor_renderer">>,
     <<"video_editor_renderer", "qc_and_safety">>,
     <<"qc_and_safety", "deliver_export">>,
     <<"deliver_export", END>>}

GraphNames ==
    {"main", "ingestion", "story_studio", "hook_meme", "production", "production_mock"}

Edges(g) ==
    CASE g = "main" -> MainEdges
      [] g = "ingestion" -> IngestionEdges
      [] g = "story_studio" -> StoryStudioEdges
      [] g = "hook_meme" -> HookMemeEdges
      [] g = "production" -> ProductionEdges
      [] g = "production_mock" -> ProductionMockEdges

\* The nodes added to graph g (every edge of every graph names added nodes).
Nodes(g) == {e[2] : e \in Edges(g)} \ {END}

AllNodes == UNION {Nodes(g) : g \in GraphNames}

\* The declared predecessors of node n: the sources of its static edges.
Preds(g, n) == {e[1] : e \in {x \in Edges(g) : x[2] = n}} \ {START}

\* Only the main graph is compiled with a checkpointer (main_graph.py:54);
\* the stage graphs are compiled without one and invoked without a config.
HasCheckpointer(g) == g = "main"

\* Nodes whose body lets an exception escape: the LLM, voice-design,
\* video-generation, client-construction and tool-setup calls made outside
\* any try block, and the reads of the asset plan and of voice_timing that
\* take a dict or a list for granted.  (The nodes of the mock production
\* graph call no collaborator.)
Raising ==
    {"structure_and_toc", "key_concepts", "summary", "quiz_generator",
     "audience_and_style_profiler", "scene_by_scene_script", "asset_planner",
     "social_media_trends", "language_slang", "hook_concept", "meme_concept",
     "voice_and_timing", "generate_video_assets", "generate_meme_assets",
     "generate_sfx", "video_editor_renderer",
     "qc_and_safety", "deliver_export"}

\* The nodes whose function awaits the ainvoke of another compiled graph and
\* returns its result.
Wrappers ==
    {"ingestion_pipeline", "story_studio_pipeline", "production_pipeline",
     "hook_and_meme_concept"}

\* The graph a wrapper node invokes; build_main_graph takes the mock or the
\* real production graph according to use_mock_production.
InnerGraphs(n) ==
    CASE n = "ingestion_pipeline" -> {"ingestion"}
      [] n = "story_studio_pipeline" -> {"story_studio"}
      [] n = "production_pipeline" -> {"production", "production_mock"}
      [] n = "hook_and_meme_concept" -> {"hook_meme"}
      [] OTHER -> {}

\* The keys of PipelineState: every graph is a StateGraph(PipelineState), so
\* these are its channels.  A key of a returned dict that is not among them
\* is not written to the State.
Schema ==
    {"raw_text", "pdf_path", "pages", "toc", "key_concepts", "summary",
     "quiz_items", "language", "audience_profile", "style_profile",
     "hook_ideas", "meme_concepts", "scenes", "total_estimated_duration",
     "asset_plan", "trends_analysis", "slang_analysis", "video_filenames",
     "voice_timing", "video_timeline", "qc_notes", "export_metadata"}

(***************************************************************************)
(* A dict is a set of <<key, value>> pairs with one pair per key.  The     *)
(* value of a key is named after what produced it: "input" for the         *)
(* caller's value, the node's name for a value a node built or edited,     *)
(* "None", "True", "False" for these Python values, and the exception's    *)
(* message for str(e).                                                     *)
(***************************************************************************)
Keys(d) == {p[1] : p \in d}

\* dict(d, **w): the pairs of w, and the pairs of d under the other keys.
Merge(d, w) == {p \in d : p[1] \notin Keys(w)} \cup w

Restrict(d, ks) == {p \in d : p[1] \in ks}

\* The dict {k: <value built by node n> for k in ks}.
Out(n, ks) == {<<k, n>> : k \in ks}

\* The value under key k of every dict that holds it is edited in place by
\* node n (the dicts share the value object).
Edit(d, ks, n) == Merge(d, Out(n, ks \cap Keys(d)))

\* An exception as it leaves a node, a graph or run_pipeline: its type,
\* which stands for its message too, and the node that its message or its
\* attributes name, "None" when they name none.
NoError == [type |-> "None", node |-> "None"]

\* The exception a collaborator (the LLM client, ElevenLabs, Modal, the MCP
\* client, the file system) or the engine raises: the library that raises
\* it knows nothing of the nodes of the graph.
Raised(type) == [type |-> type, node |-> "None"]

\* The exceptions that are a BaseException and no Exception, which no
\* `except Exception` catches: asyncio.CancelledError stands for them.
NotCaught == {"CancelledError"}

IngestionNodes ==
    {"pdf_to_pages", "structure_and_toc", "key_concepts", "summary", "quiz_generator"}

ResearchNodes == {"social_media_trends", "language_slang"}

\* state["ingestion"] is a dict with a non-empty raw_text: the value a
\* caller can give it, written "raw_text" here.
HoldsRawText(d) == <<"ingestion", "raw_text">> \in d

\* The dict node n returns when it was called with dict d and its
\* collaborators behaved as `outcome` says: "ok", or the message of the
\* exception the node caught.
Returned(n, outcome, d) ==
    CASE n = "pdf_to_pages" ->
             \* `if not raw_text: return state`
             IF HoldsRawText(d) THEN Merge(d, Out(n, {"ingestion"})) ELSE d
      [] n \in IngestionNodes \ {"pdf_to_pages"} ->
             \* state["ingestion"] = ingestion; return state
             Merge(d, Out(n, {"ingestion"}))
      [] n = "audience_and_style_profiler" ->
             \* state.get("session_id") or os.getenv(...) or str(uuid.uuid4()):
             \* an id it is given is passed on unless it is falsy; otherwise
             \* the node takes the one of the environment or makes one
             LET Falsy == {"None", "False", ""}
                 kept == {p \in Restrict(d, {"session_id"}) : p[2] \notin Falsy}
             IN  kept
                     \cup Out(n, {"session_id"} \ Keys(kept))
                     \cup Out(n, {"audience_profile", "style_profile"})
      [] n = "scene_by_scene_script" -> Out(n, {"scenes", "total_estimated_duration"})
      [] n = "asset_planner" -> Out(n, {"asset_plan"})
      [] n = "social_media_trends" ->
             IF outcome = "ok"
             THEN {<<"trends_analysis", n>>, <<"trends_analysis_complete", "True">>}
             ELSE {<<"trends_analysis", "None">>, <<"trends_analysis_complete", "False">>,
                   <<"error", outcome>>}
      [] n = "language_slang" ->
             IF outcome = "ok"
             THEN {<<"slang_analysis", n>>, <<"slang_analysis_complete", "True">>}
             ELSE {<<"slang_analysis", "None">>, <<"slang_analysis_complete", "False">>,
                   <<"error", outcome>>}
      [] n = "hook_concept" -> Out(n, {"hook_ideas"})
      [] n = "meme_concept" -> Out(n, {"meme_concepts"})
      [] n = "voice_and_timing" -> Out(n, {"voice_timing"})
      [] n = "generate_video_assets" -> Out(n, {"video_filenames", "asset_plan"})
      [] n = "video_assets" -> Out(n, {"video_filenames"})
      [] n = "generate_meme_assets" -> Out(n, {"generated_memes"})
      [] n = "generate_sfx" -> Out(n, {"asset_plan"})
      [] n = "video_editor_renderer" ->
             \* {"video_path": ..., "status": "rendered"}, the mock's
             \* {"raw": ...}, or {"error": str(e), "status": "failed"}
             IF outcome = "ok" THEN {<<"video_timeline", "rendered">>}
             ELSE IF outcome = "mock" THEN {<<"video_timeline", "raw">>}
             ELSE {<<"video_timeline", "failed">>}
      [] n = "qc_and_safety" -> Out(n, {"qc_notes"})
      [] n = "deliver_export" -> Out(n, {"export_metadata"})

\* What the collaborators of node n of graph g can do when the node catches
\* their failure: the research nodes catch the failure of their research
\* run (see FinishNode), the renderer catches the failure of the render.
Outcomes(g, n) ==
    IF n = "video_editor_renderer"
    THEN IF g = "production" THEN {"ok", "RenderError"} ELSE {"mock"}
    ELSE {"ok"}

\* The keys whose value node n of graph g may edit in place: the renderer
\* rewrites vt["audio_path"] in the voice_timing records whose audio file
\* exists, generate_sfx sets sfx_item["audio_path"] in the scenes of the
\* asset plan, generate_video_assets sets asset_obj["generated_video_path"]
\* in the asset of a scene (the scene dicts are copied, their assets are not).
Edits(g, n) ==
    IF g /= "production" THEN {}
    ELSE CASE n = "video_editor_renderer" -> {"voice_timing"}
           [] n = "generate_sfx" -> {"asset_plan"}
           [] n = "generate_video_assets" -> {"asset_plan"}
           [] OTHER -> {}

\* The dict node n was called with, as the node leaves it: the ingestion
\* nodes assign state["ingestion"] in it and return it, the others only
\* edit values.
GivenAfter(n, outcome, d, ks) ==
    IF n \in IngestionNodes THEN Returned(n, outcome, d) ELSE Edit(d, ks, n)

\* recursion_limit of the research runs: the number of supersteps allowed.
RecursionLimit == 15

\* Mutant: the research runs are invoked without a limit.
LimitReachedNever(steps) == FALSE

\* The research run has executed the supersteps its recursion limit allows.
LimitReached(steps) == steps >= RecursionLimit

IdleResearch == [pc |-> "idle", steps |-> 0, continues |-> 0, err |-> "None"]

\* Mutant: the node takes a failed research run for a finished one.
ResearchOutcomeOk(r) == "ok"

\* How the research run r ended for its node: graph.ainvoke returned
\* ("ok"), or raised and the node's `except Exception as e` has str(e).
ResearchOutcome(r) == IF r.pc = "done" THEN "ok" ELSE r.err

\* The writes of task n that reach the State: the pairs under a channel.
Written(n) == Restrict(writes[n], Schema)

\* Two tasks of one superstep wrote the same channel: every channel is a
\* LastValue channel (PipelineState annotates no reducer), which accepts one
\* value per superstep and raises InvalidUpdateError otherwise.
Collide(ts) ==
    \E a, b \in ts : a /= b /\ Keys(Written(a)) \cap Keys(Written(b)) /= {}

\* The dicts run_pipeline invokes the graph with.
InputStates == {{<<"raw_text", "input">>}, {<<"pdf_path", "input">>}}

\* run_pipeline is called with a raw text whose first path component is
\* longer than a file name can be (255 bytes): the text is no path the file
\* system can look up.
LongText == {<<"raw_text", "long_text">>}

\* The keys the nodes of graph g read and no node of g writes before: what
\* the stages before it are there to provide.
UpstreamKeys(g) ==
    CASE g = "story_studio" -> {"summary", "key_concepts", "language"}
      [] g = "hook_meme" ->
             {"pages", "summary", "language", "audience_profile", "style_profile"}
      [] g \in {"production", "production_mock"} ->
             {"scenes", "asset_plan", "audience_profile", "language"}
      [] OTHER -> {}

\* The dicts graph g is invoked with: the pipeline's input and, for a stage
\* graph, the values of the stages before it.
StageInputs(g) == {i \cup Out("input", UpstreamKeys(g)) : i \in InputStates}

\* The nodes of the superstep after one in which `finished` returned: each
\* node with an edge from one of them.
Triggered(g, finished) ==
    {n \in Nodes(g) : \E m \in finished : <<m, n>> \in Edges(g)}

\* The first superstep of an invocation.  With an input the pending tasks of
\* a saved checkpoint are discarded and the graph starts from START; only an
\* invocation with input None resumes from the checkpoint.
FirstTasks(g, arg, cp) ==
    IF arg = "None" /\ cp.saved
    THEN cp.next
    ELSE {n \in Nodes(g) : <<START, n>> \in Edges(g)}

NoCheckpoint == [saved |-> FALSE, next |-> {}, state |-> {}]

NoDicts == [n \in AllNodes |-> {}]

NoResearch == [n \in ResearchNodes |-> IdleResearch]

\* No graph is invoked.
GraphNone ==
    /\ graph = "main"
    /\ gstatus = "completed"
    /\ tasks = {}
    /\ running = {}
    /\ done = {}
    /\ execs = [n \in AllNodes |-> 0]
    /\ completed = {}
    /\ prior = {}
    /\ invocation = 0
    /\ checkpoint = NoCheckpoint
    /\ input = {}
    /\ state = {}
    /\ given = NoDicts
    /\ writes = NoDicts
    /\ gerror = NoError
    /\ stack = <<>>
    /\ research = NoResearch

\* The main graph is invoked by run_pipeline, which is called with the raw
\* text or the path and has not invoked the graph yet.  A stage graph is
\* invoked by its caller: graph.ainvoke(state) on a graph without thread.
InitGraph ==
    /\ graph \in GraphNames
    /\ gstatus = IF graph = "main" THEN "called" ELSE "running"
    /\ tasks = IF graph = "main" THEN {}
               ELSE FirstTasks(graph, "initial_state", NoCheckpoint)
    /\ running = {}
    /\ done = {}
    /\ execs = [n \in AllNodes |-> 0]
    /\ completed = {}
    /\ prior = {}
    /\ invocation = IF graph = "main" THEN 0 ELSE 1
    /\ checkpoint = NoCheckpoint
    /\ input \in StageInputs(graph) \cup (IF graph = "main" THEN {LongText} ELSE {})
    /\ state = IF graph = "main" THEN {} ELSE input
    /\ given = NoDicts
    /\ writes = NoDicts
    /\ gerror = NoError
    /\ stack = <<>>
    /\ research = NoResearch

\* A task of the superstep starts: the node function is called with a dict
\* of the State's values; a research node builds its research graph.
StartNode(n) ==
    /\ gstatus = "running"
    /\ n \in tasks \ (running \cup done)
    /\ n \notin Wrappers
    /\ running' = running \cup {n}
    /\ execs' = [execs EXCEPT ![n] = @ + 1]
    /\ given' = [given EXCEPT ![n] = state]
    /\ research' = IF n \in ResearchNodes
                   THEN [research EXCEPT ![n] = [IdleResearch EXCEPT !.pc = "agent"]]
                   ELSE research
    /\ UNCHANGED <<graph, gstatus, tasks, done, completed, prior, invocation, checkpoint,
                   input, state, writes, gerror, stack>>

\* Mutant: the tools node is wired to respond instead of back to the agent.
ResearchEdgesToolsRespond(node, route) ==
    IF node = "agent" THEN (IF route = "continue" THEN "tools" ELSE "respond")
    ELSE IF node = "tools" THEN "respond"
    ELSE "done"

\* The edges of the research graph: the node that follows `node`, where
\* route is what should_continue returned after the agent; "done" is END.
ResearchEdges(node, route) ==
    IF node = "agent" THEN (IF route = "continue" THEN "tools" ELSE "respond")
    ELSE IF node = "tools" THEN "agent"
    ELSE "done"

\* One superstep of the research run of node n:
\* "agent" calls the LLM and should_continue routes on tool_calls, "tools"
\* runs the tools and goes back to the agent, "respond" asks for the
\* structured answer and goes to END.  A failing LLM call ends the run with
\* its exception.  When the superstep is the one after the last allowed one,
\* the run ends with GraphRecursionError once it has been executed.
ResearchStep(n) ==
    /\ gstatus = "running"
    /\ n \in running \cap ResearchNodes
    /\ LET r == research[n]
       IN  /\ r.pc \in {"agent", "tools", "respond"}
           /\ \E llm \in {"ok", "CollaboratorError"}, route \in {"continue", "respond"} :
                  LET ran == [r EXCEPT !.steps = @ + 1,
                                       !.continues = IF r.pc = "agent" /\ llm = "ok"
                                                        /\ route = "continue"
                                                     THEN @ + 1 ELSE @]
                  IN  research' = [research EXCEPT ![n] =
                          IF r.pc \in {"agent", "respond"} /\ llm /= "ok"
                          THEN [ran EXCEPT !.pc = "error", !.err = llm]
                          ELSE IF LimitReached(r.steps)
                          THEN [ran EXCEPT !.pc = "error", !.err = "GraphRecursionError"]
                          ELSE [ran EXCEPT !.pc = ResearchEdges(r.pc, route)]]
    /\ UNCHANGED <<graph, gstatus, tasks, running, done, execs, completed, prior,
                   invocation, checkpoint, input, state, given, writes, gerror, stack>>

\* The research run of node n has used its supersteps and a node is still
\* to run: it ends with GraphRecursionError.
ResearchLimit(n) ==
    /\ gstatus = "running"
    /\ n \in running \cap ResearchNodes
    /\ research[n].pc \in {"agent", "tools", "respond"}
    /\ LimitReached(research[n].steps)
    /\ research' = [research EXCEPT ![n].pc = "error", ![n].err = "GraphRecursionError"]
    /\ UNCHANGED <<graph, gstatus, tasks, running, done, execs, completed, prior,
                   invocation, checkpoint, input, state, given, writes, gerror, stack>>

\* The node function returns its dict.  Before that it may have edited in
\* place the values it was given, which the State and the waiting
\* invocations hold too.
FinishNode(n) ==
    /\ gstatus = "running"
    /\ n \in running
    /\ n \in ResearchNodes => research[n].pc \in {"done", "error"}
    /\ \E outcome \in IF n \in ResearchNodes
                      THEN {ResearchOutcome(research[n])}
                      ELSE Outcomes(graph, n),
          ks \in SUBSET (Edits(graph, n) \cap Keys(given[n])) :
           /\ writes' = [writes EXCEPT ![n] = Returned(n, outcome, given[n])]
           /\ given' = [m \in AllNodes |->
                           IF m = n THEN GivenAfter(n, outcome, given[n], ks)
                                    ELSE Edit(given[m], ks, n)]
           /\ state' = Edit(state, ks, n)
           /\ stack' = IF stack = <<>> THEN <<>>
                       ELSE [i \in 1..Len(stack) |->
                                [stack[i] EXCEPT !.state = Edit(@, ks, n)]]
    /\ running' = running \ {n}
    /\ done' = done \cup {n}
    /\ completed' = completed \cup {n}
    /\ UNCHANGED <<graph, gstatus, tasks, execs, prior, invocation, checkpoint,
                   input, gerror, research>>

\* The node function of node n of graph g can raise.  In the mock
\* production graph only voice_and_timing can (it iterates over the scenes
\* and calls scene.get); the other mock nodes return constants.
Raises(g, n) == IF g = "production_mock" THEN n = "voice_and_timing" ELSE n \in Raising

\* The keys whose value node n may have edited in place when it raises:
\* generate_sfx and the renderer edit while they go through their items,
\* generate_video_assets edits only after its last raising call.
RaiseEdits(g, n) == IF n = "generate_video_assets" THEN {} ELSE Edits(g, n)

\* The types of the exceptions that can leave the function of node n of
\* graph g now.  A research node awaits its research run inside
\* `try ... except Exception`: once the run has started only an exception
\* that is no Exception leaves the node; before it (the tools are set up
\* outside the try block) any exception does.  The nodes of the mock graph
\* await nothing.
RaiseTypes(g, n) ==
    IF g = "production_mock" THEN {"CollaboratorError"}
    ELSE IF n \in ResearchNodes /\ research[n].steps > 0 THEN NotCaught
    ELSE {"CollaboratorError"} \cup NotCaught

\* Mutant: the node wraps what its collaborator raised in an error that
\* names the node.
NodeErrorNamed(n, e) == [e EXCEPT !.node = n]

\* The exception that leaves the function of node n when a call it makes
\* raised e: e itself.  No node function re-raises in an except clause,
\* the stage wrappers await ainvoke without a try, and the engine re-raises
\* the exception of the task.
NodeError(n, e) == e

\* The node function raises: the superstep is abandoned, no further node is
\* dispatched and the invocation ends with the exception.  The values the
\* node edited in place before it raised stay edited.  The checkpoint stays
\* the one saved after the last finished superstep.
RaiseNode(n) ==
    /\ gstatus = "running"
    /\ n \in running
    /\ Raises(graph, n)
    /\ n \in ResearchNodes => research[n].pc \in {"agent", "tools", "respond"}
    /\ \E ks \in SUBSET (RaiseEdits(graph, n) \cap Keys(given[n])) :
           /\ given' = [m \in AllNodes |-> Edit(given[m], ks, n)]
           /\ state' = Edit(state, ks, n)
           /\ stack' = IF stack = <<>> THEN <<>>
                       ELSE [i \in 1..Len(stack) |->
                                [stack[i] EXCEPT !.state = Edit(@, ks, n)]]
    /\ gstatus' = "failed"
    /\ \E type \in RaiseTypes(graph, n) : gerror' = NodeError(n, Raised(type))
    /\ running' = {}
    /\ UNCHANGED <<graph, tasks, done, execs, completed, prior, invocation, checkpoint,
                   input, writes, research>>

\* All tasks of the superstep returned: their writes are applied to the
\* channels, the next superstep is prepared and, with a checkpointer, the
\* checkpoint is saved.  Two writes to one channel end the invocation with
\* InvalidUpdateError.
AfterTick ==
    /\ gstatus = "running"
    /\ tasks /= {}
    /\ done = tasks
    /\ IF Collide(tasks)
       THEN /\ gstatus' = "failed"
            /\ gerror' = Raised("InvalidUpdateError")
            /\ UNCHANGED <<tasks, state, checkpoint>>
       ELSE LET next == Triggered(graph, tasks)
                merged == Merge(state, UNION {Written(n) : n \in tasks})
            IN  /\ tasks' = next
                /\ gstatus' = IF next = {} THEN "completed" ELSE "running"
                /\ state' = merged
                /\ checkpoint' = IF HasCheckpointer(graph)
                                 THEN [saved |-> TRUE, next |-> next, state |-> merged]
                                 ELSE checkpoint
                /\ gerror' = gerror
    /\ running' = {}
    /\ done' = {}
    /\ given' = NoDicts
    /\ writes' = NoDicts
    /\ UNCHANGED <<graph, execs, completed, prior, invocation, input, stack, research>>

\* A wrapper node starts: it awaits inner_graph.ainvoke(state).  The inner
\* graph starts from START with the channels of the dict it was given; the
\* invocation of the wrapper's graph waits.
InvokeInner(n) ==
    /\ gstatus = "running"
    /\ n \in Wrappers
    /\ tasks = {n}
    /\ running = {}
    /\ done = {}
    /\ \E g \in InnerGraphs(n) :
           /\ graph' = g
           /\ tasks' = FirstTasks(g, "state", NoCheckpoint)
    /\ stack' = Append(stack, [graph |-> graph, node |-> n, state |-> state])
    /\ state' = Restrict(state, Schema)
    /\ execs' = [execs EXCEPT ![n] = @ + 1]
    /\ UNCHANGED <<gstatus, running, done, completed, prior, invocation, checkpoint,
                   input, given, writes, gerror, research>>

\* The inner graph reached END: ainvoke returns its State and the wrapper
\* node returns that dict.
ReturnInner ==
    /\ stack /= <<>>
    /\ gstatus = "completed"
    /\ LET f == stack[Len(stack)]
       IN  /\ graph' = f.graph
           /\ tasks' = {f.node}
           /\ done' = {f.node}
           /\ completed' = completed \cup {f.node}
           /\ writes' = [writes EXCEPT ![f.node] = state]
           /\ state' = f.state
    /\ running' = {}
    /\ gstatus' = "running"
    /\ stack' = SubSeq(stack, 1, Len(stack) - 1)
    /\ UNCHANGED <<execs, prior, invocation, checkpoint, input, given, gerror, research>>

\* The inner graph ended with an exception: it leaves ainvoke and the
\* wrapper node, and ends the invocation of the wrapper's graph too.
RaiseInner ==
    /\ stack /= <<>>
    /\ gstatus = "failed"
    /\ LET f == stack[Len(stack)]
       IN  /\ graph' = f.graph
           /\ tasks' = {f.node}
           /\ state' = f.state
    /\ running' = {}
    /\ done' = {}
    /\ given' = NoDicts
    /\ writes' = NoDicts
    /\ research' = NoResearch
    /\ stack' = SubSeq(stack, 1, Len(stack) - 1)
    /\ UNCHANGED <<gstatus, gerror, execs, completed, prior, invocation, checkpoint, input>>

\* run_pipeline raises before compiled_graph.ainvoke: no graph is invoked,
\* the thread's checkpoint is as it was.  On a raw text that is no file
\* name Path(text).exists() raises OSError, each time.  On any other
\* argument opening checkpoints.db and get_llm() in build_main_graph raise
\* what their collaborator raises, and the await of the saver can be
\* cancelled.
RunPipelineRaises ==
    /\ gstatus = "called"
    /\ gstatus' = "failed"
    /\ \E type \in (IF input = LongText THEN {"OSError"}
                     ELSE {"CollaboratorError"} \cup NotCaught) :
           gerror' = Raised(type)
    /\ UNCHANGED <<graph, tasks, running, done, execs, completed, prior, invocation,
                   checkpoint, input, state, given, writes, stack, research>>

\* run_pipeline, compiled_graph.ainvoke(initial_state, config): the path
\* was checked, the saver is open and the graph is built.  On a thread with
\* a checkpoint (the call after a failed run) the input is written over
\* the State of the checkpoint.
RunPipelineInvoke ==
    /\ gstatus = "called"
    /\ input /= LongText
    /\ invocation' = invocation + 1
    /\ prior' = prior \cup completed
    /\ completed' = {}
    /\ execs' = [n \in AllNodes |-> 0]
    /\ tasks' = FirstTasks(graph, "initial_state", checkpoint)
    /\ state' = Merge(checkpoint.state, input)
    /\ running' = {}
    /\ done' = {}
    /\ given' = NoDicts
    /\ writes' = NoDicts
    /\ research' = NoResearch
    /\ gstatus' = "running"
    /\ gerror' = NoError
    /\ UNCHANGED <<graph, checkpoint, input, stack>>

\* run_pipeline is called again with the same thread_id after a failed run.
RunPipelineAgain ==
    /\ gstatus = "failed"
    /\ stack = <<>>
    /\ HasCheckpointer(graph)
    /\ invocation < MaxInvocations
    /\ gstatus' = "called"
    /\ gerror' = NoError
    /\ UNCHANGED <<graph, tasks, running, done, execs, completed, prior, invocation,
                   checkpoint, input, state, given, writes, stack, research>>

(***************************************************************************)
(* Job store and background worker (app_space.py).  Python's None is the   *)
(* string "None"; progress is in hundredths (0.01 is 1, 1.0 is 100).       *)
(***************************************************************************)
JobIds == 1..MaxJobs

\* A job id with no file in JOBS_DIR: read_job returns None.
NoFile ==
    [status |-> "NONE", progress |-> 0, output_local_path |-> "None",
     output_hf_url |-> "None", error |-> "None"]

\* The record create_job writes.
\* A job file left empty by a kill inside write_job (write_text truncates
\* the file, then writes): json.loads raises on it.
Unreadable ==
    [status |-> "UNREADABLE", progress |-> 0, output_local_path |-> "None",
     output_hf_url |-> "None", error |-> "None"]

NewJob ==
    [status |-> "PENDING", progress |-> 0, output_local_path |-> "None",
     output_hf_url |-> "None", error |-> "None"]

\* The video_timeline of the State a pipeline run can return, as
\* pdf_to_brainrot looks at it: the path it names under "video_path"
\* ("None" when the key is missing, the value is not a dict or has an
\* error instead), and whether a file exists at that path.
VideoTimelines == [video_path : {"None", "out.mp4"}, exists : BOOLEAN]

NoResult == [video_path |-> "None", exists |-> FALSE]

\* Mutant: the candidate path is taken without looking for the file.
VideoPathUnchecked(vt) == vt.video_path

\* pdf_to_brainrot: video_path, "None" unless the result names a path and
\* candidate_path.exists().
VideoPath(vt) == IF vt.video_path /= "None" /\ vt.exists THEN vt.video_path ELSE "None"

Idle == [job |-> 0, pc |-> "idle", result |-> NoResult]

\* No sweep is under way.
NoSweep == [on |-> FALSE, todo |-> {}, found |-> [j \in JobIds |-> "NONE"]]

\* No job was ever submitted: the job store as the first import leaves it.
JobsNone ==
    /\ jobs = [j \in JobIds |-> NoFile]
    /\ queue = <<>>
    /\ worker = Idle
    /\ alive = TRUE
    /\ crashes = 0
    /\ sweep = NoSweep
    /\ submitting = {}

\* demo.queue(max_size=20, default_concurrency_limit=2): the calls of
\* submit_job that run at one time.
DefaultConcurrencyLimit == 2

\* The ids create_job can be writing a file for: a call of submit_job that
\* has not created its file yet takes the next fresh id, and there are as
\* many such calls as the queue of the interface lets run.
FreshIds ==
    {j \in JobIds :
        /\ jobs[j].status = "NONE"
        /\ Cardinality({k \in JobIds : k < j /\ jobs[k].status = "NONE"})
               < DefaultConcurrencyLimit - Cardinality(submitting)}

\* submit_job, job = create_job(...): the PENDING record is written under a
\* fresh id; the id is not queued yet.  When write_job raises after it
\* created the file, the exception leaves submit_job: the file stays empty
\* and the id is never queued.
CreateJob ==
    /\ alive
    /\ Cardinality(submitting) < DefaultConcurrencyLimit
    /\ \E j \in JobIds :
           /\ jobs[j].status = "NONE"
           /\ \A k \in JobIds : k < j => jobs[k].status /= "NONE"
           /\ \/ /\ jobs' = [jobs EXCEPT ![j] = NewJob]
                 /\ submitting' = submitting \cup {j}
              \/ /\ jobs' = [jobs EXCEPT ![j] = Unreadable]
                 /\ submitting' = submitting
    /\ UNCHANGED <<queue, worker, crashes, alive, sweep, timingVars, voiceVars, assetVars, engineVars, graphVars>>

\* submit_job, enqueue_job(job["job_id"]): the id is handed to the executor.
\* Nothing orders the calls of two submissions: the one that created its
\* file later can be queued first.
EnqueueJob(j) ==
    /\ alive
    /\ j \in submitting
    /\ queue' = Append(queue, j)
    /\ submitting' = submitting \ {j}
    /\ UNCHANGED <<jobs, worker, crashes, alive, sweep, timingVars, voiceVars, assetVars, engineVars, graphVars>>

\* run_job, up to the try block: the single worker thread takes the oldest
\* queued id and reads the job.  Without a file run_job returns, and on a
\* file it cannot parse read_job raises: either way the id is dropped.
RunJobTake ==
    /\ alive
    /\ worker.pc = "idle"
    /\ queue /= <<>>
    /\ worker' = IF jobs[Head(queue)].status \in {"NONE", "UNREADABLE"}
                 THEN Idle
                 ELSE [job |-> Head(queue), pc |-> "taken", result |-> NoResult]
    /\ queue' = Tail(queue)
    /\ UNCHANGED <<jobs, crashes, alive, sweep, submitting, timingVars, voiceVars, assetVars, engineVars, graphVars>>

\* run_job, the first statement of the try block:
\* update_job(job_id, status="RUNNING", progress=0.0) writes the job file.
RunJobStart ==
    /\ alive
    /\ worker.pc = "taken"
    /\ jobs' = [jobs EXCEPT ![worker.job].status = "RUNNING", ![worker.job].progress = 0]
    /\ worker' = [worker EXCEPT !.pc = "started"]
    /\ UNCHANGED <<queue, crashes, alive, sweep, submitting, timingVars, voiceVars, assetVars, engineVars, graphVars>>

\* pdf_to_brainrot, up to the call of run_pipeline: progress_cb(0.01).
RunJobPipeline ==
    /\ alive
    /\ worker.pc = "started"
    /\ jobs' = [jobs EXCEPT ![worker.job].progress = 1]
    /\ worker' = [worker EXCEPT !.pc = "pipeline"]
    /\ UNCHANGED <<queue, crashes, alive, sweep, submitting, timingVars, voiceVars, assetVars, engineVars, graphVars>>

\* pdf_to_brainrot, the pipeline returned a result naming an existing video:
\* it is copied to the job's output directory and progress_cb(1.0) is called.
RunJobProduced ==
    /\ alive
    /\ worker.pc = "pipeline"
    /\ jobs' = [jobs EXCEPT ![worker.job].progress = 100]
    /\ \E vt \in VideoTimelines :
           /\ VideoPath(vt) /= "None"
           /\ worker' = [worker EXCEPT !.pc = "copied", !.result = vt]
    /\ UNCHANGED <<queue, crashes, alive, sweep, submitting, timingVars, voiceVars, assetVars, engineVars, graphVars>>

\* run_job, after pdf_to_brainrot returned: the log line is appended, the
\* upload succeeds or fails (it is caught) and
\* update_job(status="COMPLETED", ...) is written.
RunJobComplete ==
    /\ alive
    /\ worker.pc = "copied"
    /\ \E hf_url \in {"url", "None"} :
           jobs' = [jobs EXCEPT ![worker.job] =
                       [@ EXCEPT !.status = "COMPLETED",
                                 !.output_local_path = "video.mp4",
                                 !.output_hf_url = hf_url,
                                 !.progress = 100]]
    /\ worker' = [worker EXCEPT !.pc = "completed"]
    /\ UNCHANGED <<queue, crashes, alive, sweep, submitting, timingVars, voiceVars, assetVars, engineVars, graphVars>>

\* run_job, append_log(job_id, "Job completed successfully."): the job file
\* is written once more with the status it has, and run_job returns.
RunJobLogged ==
    /\ alive
    /\ worker.pc = "completed"
    /\ worker' = Idle
    /\ UNCHANGED <<jobs, queue, crashes, alive, sweep, submitting, timingVars, voiceVars, assetVars, engineVars, graphVars>>

\* The worker is inside the try block of run_job: "taken" is before its
\* first statement, the write of RUNNING.
InTry == worker.pc \in {"taken", "started", "pipeline", "copied", "completed"}

\* run_job, `except Exception`: a statement of the try block raised an
\* Exception (the write of RUNNING, out_dir.mkdir before progress_cb(0.01),
\* the pipeline, the RuntimeError for a missing video file, the copy, a
\* later write of the job file) and left the job file as it was;
\* update_job(status="FAILED", error=str(e)) on the job as it is.
RunJobFail ==
    /\ alive
    /\ InTry
    /\ jobs' = [jobs EXCEPT ![worker.job].status = "FAILED",
                            ![worker.job].error = "error"]
    /\ worker' = Idle
    /\ UNCHANGED <<queue, crashes, alive, sweep, submitting, timingVars, voiceVars, assetVars, engineVars, graphVars>>

\* What leaves the try block is no Exception (asyncio.CancelledError,
\* SystemExit, KeyboardInterrupt, GeneratorExit): nothing is written, the
\* executor keeps the exception in the future and the worker thread takes
\* the next job.  Or a write of the job file fails and the except clause
\* fails on the file too: its writes raise on the file as it was, or its
\* read raises on the file the failed write left empty.
RunJobAbandoned ==
    /\ alive
    /\ InTry
    /\ \/ jobs' = jobs
       \/ jobs' = [jobs EXCEPT ![worker.job] = Unreadable]
    /\ worker' = Idle
    /\ UNCHANGED <<queue, crashes, alive, sweep, submitting, timingVars, voiceVars, assetVars, engineVars, graphVars>>

\* The job files a thread can be writing when the process is killed.  While
\* the application serves: the file of the job the worker thread has taken,
\* and the files create_job writes for the submissions under way.  During
\* the startup sweep: the files of the RUNNING jobs it has still to rewrite.
BeingWritten ==
    IF sweep.on
    THEN {j \in sweep.todo : jobs[j].status = "RUNNING"}
    ELSE (IF worker.job /= 0 THEN {worker.job} ELSE {}) \cup FreshIds

\* The process dies (the Space restarts or sleeps), while it serves or
\* during the sweep of its start: the executor's queue, the worker thread
\* and the submissions under way are gone, the job files stay.  A file that
\* was being written when the process died can be left empty: one file per
\* thread that writes (the sweep is one thread; the worker thread and the
\* threads of the submissions are others).  The files the submissions
\* created take the fresh ids in their order.
Crash ==
    /\ alive \/ sweep.on
    /\ crashes < MaxCrashes
    /\ alive' = FALSE
    /\ sweep' = NoSweep
    /\ crashes' = crashes + 1
    /\ queue' = <<>>
    /\ worker' = Idle
    /\ submitting' = {}
    /\ \E torn \in {t \in SUBSET BeingWritten :
                        /\ sweep.on => Cardinality(t) <= 1
                        /\ \A j \in t : \A k \in FreshIds : (j \in FreshIds /\ k < j) => k \in t} :
           jobs' = [j \in JobIds |-> IF j \in torn THEN Unreadable ELSE jobs[j]]
    /\ UNCHANGED <<timingVars, voiceVars, assetVars, engineVars, graphVars>>

\* recover_incomplete_jobs, for one job file: the status it writes.
RecoverStatus(status) == IF status = "RUNNING" THEN "INTERRUPTED" ELSE status

\* The process starts: importing app_space runs recover_incomplete_jobs,
\* whose loop goes over the job files JOBS_DIR.glob lists.  The statuses the
\* files have now are kept aside for the properties of the sweep.
Restart ==
    /\ ~alive
    /\ ~sweep.on
    /\ sweep' = [on |-> TRUE,
                 todo |-> {j \in JobIds : jobs[j].status /= "NONE"},
                 found |-> [j \in JobIds |-> jobs[j].status]]
    /\ UNCHANGED <<jobs, queue, worker, alive, crashes, submitting, timingVars, voiceVars, assetVars, engineVars, graphVars>>

\* recover_incomplete_jobs, one iteration of the loop, on the file of job j.
\* A file that cannot be parsed is skipped (`except Exception: continue`).
\* A RUNNING job is rewritten as INTERRUPTED with jf.write_text; when that
\* write raises, the exception is swallowed too and the file is as it was
\* (it could not be opened) or empty (it was truncated).  Any other job is
\* left alone.
RecoverJob(j) ==
    /\ sweep.on
    /\ j \in sweep.todo
    /\ \/ jobs' = [jobs EXCEPT ![j].status = RecoverStatus(@)]
       \/ jobs[j].status = "RUNNING" /\ jobs' = jobs
       \/ jobs[j].status = "RUNNING" /\ jobs' = [jobs EXCEPT ![j] = Unreadable]
    /\ sweep' = [sweep EXCEPT !.todo = @ \ {j}]
    /\ UNCHANGED <<queue, worker, alive, crashes, submitting, timingVars, voiceVars, assetVars, engineVars, graphVars>>

\* The sweep has gone over every file: the import goes on, the executor is
\* created and the application serves.
Serve ==
    /\ sweep.on
    /\ sweep.todo = {}
    /\ alive' = TRUE
    /\ sweep' = NoSweep
    /\ UNCHANGED <<jobs, queue, worker, crashes, submitting, timingVars, voiceVars, assetVars, engineVars, graphVars>>

\* The timing reconstruction is not running.
TimingNone ==
    /\ timestamps = <<>>
    /\ word_timestamps = <<>>
    /\ tpc = "aligned"

\* The Engine before a run: nothing is ready, in flight or decided.
IdleEngine ==
    [pc |-> "none", error |-> "None", node |-> "None", ready |-> {}, flight |-> {},
     finished |-> {}, routed |-> {}, label |-> "None", decisions |-> 0, loops |-> 0,
     starts |-> 0]

\* No graph is under construction.
EngineNone ==
    /\ builder = [name |-> "None", nodes |-> {}, edges |-> {}, ends |-> {}, returns |-> {}]
    /\ engine = IdleEngine

\* generate_video_assets_node is not running.
AssetsNone ==
    /\ scenes_list = <<>>
    /\ apc = "none"
    /\ gen_tasks = <<>>
    /\ video_filenames = <<>>
    /\ updated_plan = <<>>

\* voice_and_timing_node is not running.
VoiceNone ==
    /\ scenes = <<>>
    /\ elevenlabs_api_key = FALSE
    /\ metadata = <<>>
    /\ vpc = "none"
    /\ voice_id = "None"
    /\ scene_vo_data = <<>>
    /\ position = 0
    /\ voice_timing_results = <<>>
    /\ execution = 0
    /\ previous = <<>>
    /\ synthesis_calls = 0

InitJobs == JobsNone /\ TimingNone /\ GraphNone /\ VoiceNone /\ AssetsNone /\ EngineNone

NextJobs ==
    \/ CreateJob
    \/ \E j \in JobIds : EnqueueJob(j)
    \/ RunJobTake
    \/ RunJobStart
    \/ RunJobPipeline
    \/ RunJobProduced
    \/ RunJobComplete
    \/ RunJobLogged
    \/ RunJobFail
    \/ RunJobAbandoned
    \/ Crash
    \/ Restart
    \/ \E j \in JobIds : RecoverJob(j)
    \/ Serve

SpecJobs == InitJobs /\ [][NextJobs]_vars

\* A submission that created its file goes on to enqueue_job, the
\* executor hands a queued id to the free worker thread, the thread
\* goes on inside run_job (every call it makes returns or raises; which of
\* the two is not promised), a stopped process is started again and its
\* sweep goes on to its end.
FairSpecJobs ==
    /\ SpecJobs
    /\ WF_vars(\E j \in JobIds : EnqueueJob(j))
    /\ WF_vars(RunJobTake)
    /\ WF_vars(RunJobStart \/ RunJobPipeline \/ RunJobProduced \/ RunJobComplete
                   \/ RunJobLogged \/ RunJobFail \/ RunJobAbandoned)
    /\ WF_vars(Restart)
    /\ WF_vars(\E j \in JobIds : RecoverJob(j))
    /\ WF_vars(Serve)

\* The characters of n one-letter words with one space between them.
Spaced(n) == [i \in 1..(2 * n - 1) |-> IF i % 2 = 1 THEN "a" ELSE " "]

\* The alignments the model runs the reconstruction on: every stream of up
\* to MaxChars characters, and the longer streams of up to MaxWords spaced
\* one-letter words, each with every timing.
InitTiming ==
    /\ \/ \E n \in 0..MaxChars :
              \E characters \in [1..n -> {"a", " ", "\t"}], pauses \in [1..n -> Pauses] :
                  timestamps = Alignment(characters, pauses)
       \/ \E n \in 1..MaxWords :
              \E pauses \in [1..(2 * n - 1) -> Pauses] :
                  timestamps = Alignment(Spaced(n), pauses)
    /\ word_timestamps = <<>>
    /\ tpc = "aligned"
    /\ JobsNone
    /\ GraphNone
    /\ VoiceNone
    /\ AssetsNone
    /\ EngineNone

GroupWords ==
    /\ tpc = "aligned"
    /\ word_timestamps' = GroupChars(timestamps)
    /\ tpc' = "grouped"
    /\ UNCHANGED <<timestamps, jobVars, graphVars, voiceVars, assetVars, engineVars>>

BridgeWords ==
    /\ tpc = "grouped"
    /\ word_timestamps' = BridgeGaps(word_timestamps)
    /\ tpc' = "bridged"
    /\ UNCHANGED <<timestamps, jobVars, graphVars, voiceVars, assetVars, engineVars>>

NextTiming == GroupWords \/ BridgeWords

SpecTiming == InitTiming /\ [][NextTiming]_vars

InitGraphs == InitGraph /\ JobsNone /\ TimingNone /\ VoiceNone /\ AssetsNone /\ EngineNone

NextGraphs ==
    \/ \E n \in AllNodes : StartNode(n) /\ UNCHANGED <<timingVars, voiceVars, assetVars, engineVars, jobVars>>
    \/ \E n \in ResearchNodes : ResearchStep(n) /\ UNCHANGED <<timingVars, voiceVars, assetVars, engineVars, jobVars>>
    \/ \E n \in ResearchNodes : ResearchLimit(n) /\ UNCHANGED <<timingVars, voiceVars, assetVars, engineVars, jobVars>>
    \/ \E n \in AllNodes : FinishNode(n) /\ UNCHANGED <<timingVars, voiceVars, assetVars, engineVars, jobVars>>
    \/ \E n \in AllNodes : RaiseNode(n) /\ UNCHANGED <<timingVars, voiceVars, assetVars, engineVars, jobVars>>
    \/ AfterTick /\ UNCHANGED <<timingVars, voiceVars, assetVars, engineVars, jobVars>>
    \/ \E n \in Wrappers : InvokeInner(n) /\ UNCHANGED <<timingVars, voiceVars, assetVars, engineVars, jobVars>>
    \/ ReturnInner /\ UNCHANGED <<timingVars, voiceVars, assetVars, engineVars, jobVars>>
    \/ RaiseInner /\ UNCHANGED <<timingVars, voiceVars, assetVars, engineVars, jobVars>>
    \/ RunPipelineRaises /\ UNCHANGED <<timingVars, voiceVars, assetVars, engineVars, jobVars>>
    \/ RunPipelineInvoke /\ UNCHANGED <<timingVars, voiceVars, assetVars, engineVars, jobVars>>
    \/ RunPipelineAgain /\ UNCHANGED <<timingVars, voiceVars, assetVars, engineVars, jobVars>>

SpecGraphs == InitGraphs /\ [][NextGraphs]_vars

(***************************************************************************)
(* A job that runs the pipeline: run_job calls pdf_to_brainrot, which runs *)
(* the main graph on a thread of its own (a fresh uuid) and looks for the  *)
(* rendered video in the State the run returns.                            *)
(***************************************************************************)
\* pdf_to_brainrot, up to the call of run_pipeline: progress_cb(0.01)
\* writes the job file, then asyncio.run(run_pipeline(pdf_path, thread_id))
\* is called on a thread of its own.  The graph is not invoked yet.
RunJobInvoke ==
    /\ alive
    /\ worker.pc = "started"
    /\ jobs' = [jobs EXCEPT ![worker.job].progress = 1]
    /\ worker' = [worker EXCEPT !.pc = "pipeline"]
    /\ graph' = "main"
    /\ gstatus' = "called"
    /\ tasks' = {}
    /\ running' = {}
    /\ done' = {}
    /\ execs' = [n \in AllNodes |-> 0]
    /\ completed' = {}
    /\ prior' = {}
    /\ invocation' = 0
    /\ checkpoint' = NoCheckpoint
    /\ input' \in InputStates    \* the stored path: an existing PDF, or no file
    /\ state' = {}
    /\ given' = NoDicts
    /\ writes' = NoDicts
    /\ gerror' = NoError
    /\ stack' = <<>>
    /\ research' = NoResearch
    /\ UNCHANGED <<queue, crashes, alive, sweep, submitting, timingVars, voiceVars, assetVars, engineVars>>

\* run_job, `except Exception as e`: the error it records is str(e), the
\* message of the exception that left run_pipeline.
RecordedError(e) == e.type

\* run_pipeline raised an Exception: it leaves pdf_to_brainrot and run_job
\* catches it, update_job(status="FAILED", error=str(e)).  (An exception
\* that is no Exception leaves run_job: RunJobAbandoned.)
RunJobRaised ==
    /\ alive
    /\ worker.pc = "pipeline"
    /\ gstatus = "failed"
    /\ stack = <<>>
    /\ gerror.type \notin NotCaught
    /\ jobs' = [jobs EXCEPT ![worker.job].status = "FAILED",
                            ![worker.job].error = RecordedError(gerror)]
    /\ worker' = Idle
    /\ UNCHANGED <<queue, crashes, alive, sweep, submitting, timingVars, voiceVars, assetVars, engineVars, graphVars>>

\* The worker thread is inside run_pipeline.
InPipeline == alive /\ worker.pc = "pipeline"

\* Inside run_pipeline the only statement of run_job that can raise is the
\* call of the pipeline: what it raises is caught (RunJobRaised), or it
\* leaves run_job, or the except clause fails on the job file.
NextPipelineJobs ==
    \/ CreateJob
    \/ \E j \in JobIds : EnqueueJob(j)
    \/ RunJobTake
    \/ RunJobStart
    \/ RunJobInvoke
    \/ InPipeline /\ RunPipelineRaises /\ UNCHANGED <<timingVars, voiceVars, assetVars, engineVars, jobVars>>
    \/ InPipeline /\ RunPipelineInvoke /\ UNCHANGED <<timingVars, voiceVars, assetVars, engineVars, jobVars>>
    \/ \E n \in AllNodes : InPipeline /\ StartNode(n) /\ UNCHANGED <<timingVars, voiceVars, assetVars, engineVars, jobVars>>
    \/ \E n \in AllNodes : InPipeline /\ FinishNode(n) /\ UNCHANGED <<timingVars, voiceVars, assetVars, engineVars, jobVars>>
    \/ \E n \in AllNodes : InPipeline /\ RaiseNode(n) /\ UNCHANGED <<timingVars, voiceVars, assetVars, engineVars, jobVars>>
    \/ InPipeline /\ AfterTick /\ UNCHANGED <<timingVars, voiceVars, assetVars, engineVars, jobVars>>
    \/ \E n \in Wrappers : InPipeline /\ InvokeInner(n) /\ UNCHANGED <<timingVars, voiceVars, assetVars, engineVars, jobVars>>
    \/ InPipeline /\ RaiseInner /\ UNCHANGED <<timingVars, voiceVars, assetVars, engineVars, jobVars>>
    \/ RunJobRaised
    \/ RunJobFail /\ ~InPipeline
    \/ RunJobAbandoned /\ (InPipeline => gstatus = "failed")

SpecPipelineJobs == InitJobs /\ [][NextPipelineJobs]_vars

(***************************************************************************)
(* voice_and_timing_node: a call, scene by scene, and a second call on the  *)
(* same State.  The files of output_dir are named after the scene_number   *)
(* and outlive the call.                                                   *)
(***************************************************************************)
\* str.strip on the dialogue_vo a scene can have: "", "hi", "hi ", "yo".
StripText(t) == IF t = "hi " THEN "hi" ELSE t

\* result_data of a synthesized scene (the record has no "error" key).
ResultData(scene_number, text, duration) ==
    [scene_id |-> scene_number, text |-> text, audio_path |-> "generated_audio",
     duration_seconds |-> duration]

\* The record appended by `except Exception as e` in the loop.
ErrorData(scene_number, text, e) ==
    [scene_id |-> scene_number, text |-> text, audio_path |-> "None",
     duration_seconds |-> 0, error |-> e]

\* What output_dir can hold for one scene number: nothing, an audio file
\* with a metadata file that cannot be used (unreadable, or without
\* word_timestamps), or an audio file with the metadata of an earlier call.
CachedFiles(scene_number) ==
    {[status |-> "none"], [status |-> "unusable"]}
        \cup {[status |-> "cached", data |-> ResultData(scene_number, t, 1)] :
                  t \in {"hi", "yo"}}

\* The cache check of the loop: both files exist, the metadata loads, its
\* text equals the scene's up to surrounding whitespace and it has
\* word_timestamps.
CacheHit(scene_data) ==
    LET cached_data == metadata[scene_data.scene_number]
    IN  /\ cached_data.status = "cached"
        /\ StripText(cached_data.data.text) = StripText(scene_data.dialogue_vo)

\* The scenes as the extraction loop sees them, and the loop's result.
SceneData(ss) ==
    [i \in 1..Len(ss) |-> [scene_number |-> ss[i].scene_number,
                           dialogue_vo |-> ss[i].dialogue_vo]]

ExtractDialogue(ss) ==
    LET HasDialogue(scene_data) == scene_data.dialogue_vo /= ""
    IN  SelectSeq(SceneData(ss), HasDialogue)

InitVoice ==
    /\ \E n \in 0..MaxScenes :
           \E number \in [1..n -> 1..n], text \in [1..n -> {"", "hi", "hi ", "yo"}] :
               scenes = [i \in 1..n |-> [scene_number |-> number[i], dialogue_vo |-> text[i]]]
    /\ elevenlabs_api_key \in BOOLEAN
    /\ \E f \in [1..Len(scenes) -> {"none", "unusable", "hi", "yo"}] :
           metadata = [i \in 1..Len(scenes) |->
                          IF f[i] \in {"none", "unusable"} THEN [status |-> f[i]]
                          ELSE [status |-> "cached", data |-> ResultData(i, f[i], 1)]]
    /\ vpc = "start"
    /\ voice_id = "None"
    /\ scene_vo_data = <<>>
    /\ position = 0
    /\ voice_timing_results = <<>>
    /\ execution = 1
    /\ previous = <<>>
    /\ synthesis_calls = 0
    /\ JobsNone
    /\ GraphNone
    /\ TimingNone
    /\ AssetsNone
    /\ EngineNone

\* No key is given and none is in the environment.
NoApiKey ==
    /\ vpc = "start"
    /\ ~elevenlabs_api_key
    /\ voice_timing_results' = <<[error |-> "No ElevenLabs API key provided"]>>
    /\ vpc' = "returned"
    /\ UNCHANGED <<scenes, elevenlabs_api_key, metadata, voice_id, scene_vo_data, position,
                   execution, previous, synthesis_calls>>

\* The voice design phase returns a voice: a cached one, a designed one, or
\* a fallback when design_voice reports a failure or create_voice_from_design
\* or cache_voice raises.
DesignVoice ==
    /\ vpc = "start"
    /\ elevenlabs_api_key
    \* a cached voice, a newly designed one, or one of the two fallback voices
    /\ voice_id' \in {"cached", "designed", "JBFqnCBsd6RMkjVDRZzb", "h2dQOVyUfIDqY2whPOMo"}
    /\ vpc' = "extract"
    /\ UNCHANGED <<scenes, elevenlabs_api_key, metadata, scene_vo_data, position,
                   voice_timing_results, execution, previous, synthesis_calls>>

\* The voice design phase raises outside its try block: VoiceCache(),
\* VoiceDesigner(...), generate_voice_description(), get_cached_voice(),
\* design_voice() or the voice_name expression.  The exception leaves the
\* node and no voice_timing is returned.
DesignRaises ==
    /\ vpc = "start"
    /\ elevenlabs_api_key
    /\ vpc' = "raised"
    /\ UNCHANGED <<scenes, elevenlabs_api_key, metadata, voice_id, scene_vo_data, position,
                   voice_timing_results, execution, previous, synthesis_calls>>

\* The extraction loop and the test that follows it.
ExtractScenes ==
    /\ vpc = "extract"
    /\ scene_vo_data' = ExtractDialogue(scenes)
    /\ IF scene_vo_data' = <<>>
       THEN /\ voice_timing_results' = <<[error |-> "No scenes with dialogue_vo found"]>>
            /\ vpc' = "returned"
       ELSE /\ voice_timing_results' = <<>>
            /\ vpc' = "loop"
    /\ UNCHANGED <<scenes, elevenlabs_api_key, metadata, voice_id, position,
                   execution, previous, synthesis_calls>>

\* ElevenLabs(api_key=...) or output_path.mkdir raises before the loop.
SetupRaises ==
    /\ vpc = "loop"
    /\ position = 0
    /\ vpc' = "raised"
    /\ UNCHANGED <<scenes, elevenlabs_api_key, metadata, voice_id, scene_vo_data, position,
                   voice_timing_results, execution, previous, synthesis_calls>>

\* The entry of scene_vo_data the loop is at.
Current == scene_vo_data[position + 1]

InLoop == vpc = "loop" /\ position < Len(scene_vo_data)

\* One iteration, cache hit: the cached metadata is the scene's record.
UseCachedAudio ==
    /\ InLoop
    /\ CacheHit(Current)
    /\ voice_timing_results' = Append(voice_timing_results, metadata[Current.scene_number].data)
    /\ position' = position + 1
    /\ UNCHANGED <<scenes, elevenlabs_api_key, metadata, vpc, voice_id, scene_vo_data,
                   execution, previous, synthesis_calls>>

\* One iteration, the whole try block succeeds: the audio is written, the
\* record is appended and the metadata file is written.
SynthesizeScene ==
    /\ InLoop
    /\ ~CacheHit(Current)
    /\ \E duration \in 0..1 :
           LET result_data == ResultData(Current.scene_number, Current.dialogue_vo, duration)
           IN  /\ voice_timing_results' = Append(voice_timing_results, result_data)
               /\ metadata' = [metadata EXCEPT ![Current.scene_number] =
                                                  [status |-> "cached", data |-> result_data]]
    /\ position' = position + 1
    /\ synthesis_calls' = synthesis_calls + 1
    /\ UNCHANGED <<scenes, elevenlabs_api_key, vpc, voice_id, scene_vo_data,
                   execution, previous>>

\* One iteration, the synthesis (the ElevenLabs call, the decoding or the
\* write of the audio file) raises: the except clause appends the record.
SynthesisFails ==
    /\ InLoop
    /\ ~CacheHit(Current)
    /\ voice_timing_results' =
           Append(voice_timing_results,
                  ErrorData(Current.scene_number, Current.dialogue_vo, "SynthesisError"))
    /\ position' = position + 1
    /\ synthesis_calls' = synthesis_calls + 1
    /\ UNCHANGED <<scenes, elevenlabs_api_key, metadata, vpc, voice_id, scene_vo_data,
                   execution, previous>>

\* One iteration, the write of the metadata file raises (open or json.dump):
\* result_data was appended before it, and the except clause appends its
\* record too.  The metadata file is as it was or is left unusable.
MetadataWriteFails ==
    /\ InLoop
    /\ ~CacheHit(Current)
    /\ \E duration \in 0..1 :
           voice_timing_results' =
               Append(Append(voice_timing_results,
                             ResultData(Current.scene_number, Current.dialogue_vo, duration)),
                      ErrorData(Current.scene_number, Current.dialogue_vo, "OSError"))
    /\ \/ metadata' = metadata
       \/ metadata' = [metadata EXCEPT ![Current.scene_number] = [status |-> "unusable"]]
    /\ position' = position + 1
    /\ synthesis_calls' = synthesis_calls + 1
    /\ UNCHANGED <<scenes, elevenlabs_api_key, vpc, voice_id, scene_vo_data,
                   execution, previous>>

\* return {"voice_timing": voice_timing_results}
ReturnVoiceTiming ==
    /\ vpc = "loop"
    /\ position = Len(scene_vo_data)
    /\ vpc' = "returned"
    /\ UNCHANGED <<scenes, elevenlabs_api_key, metadata, voice_id, scene_vo_data, position,
                   voice_timing_results, execution, previous, synthesis_calls>>

\* The node is executed a second time on the same State, with output_dir as
\* the first execution left it.
ExecuteAgain ==
    /\ vpc = "returned"
    /\ execution = 1
    /\ execution' = 2
    /\ previous' = voice_timing_results
    /\ vpc' = "start"
    /\ voice_id' = "None"
    /\ scene_vo_data' = <<>>
    /\ position' = 0
    /\ voice_timing_results' = <<>>
    /\ synthesis_calls' = 0
    /\ UNCHANGED <<scenes, elevenlabs_api_key, metadata>>

NextVoice ==
    \/ NoApiKey /\ UNCHANGED <<timingVars, jobVars, graphVars, assetVars, engineVars>>
    \/ DesignVoice /\ UNCHANGED <<timingVars, jobVars, graphVars, assetVars, engineVars>>
    \/ DesignRaises /\ UNCHANGED <<timingVars, jobVars, graphVars, assetVars, engineVars>>
    \/ ExtractScenes /\ UNCHANGED <<timingVars, jobVars, graphVars, assetVars, engineVars>>
    \/ SetupRaises /\ UNCHANGED <<timingVars, jobVars, graphVars, assetVars, engineVars>>
    \/ UseCachedAudio /\ UNCHANGED <<timingVars, jobVars, graphVars, assetVars, engineVars>>
    \/ SynthesizeScene /\ UNCHANGED <<timingVars, jobVars, graphVars, assetVars, engineVars>>
    \/ SynthesisFails /\ UNCHANGED <<timingVars, jobVars, graphVars, assetVars, engineVars>>
    \/ MetadataWriteFails /\ UNCHANGED <<timingVars, jobVars, graphVars, assetVars, engineVars>>
    \/ ReturnVoiceTiming /\ UNCHANGED <<timingVars, jobVars, graphVars, assetVars, engineVars>>
    \/ ExecuteAgain /\ UNCHANGED <<timingVars, jobVars, graphVars, assetVars, engineVars>>

SpecVoice == InitVoice /\ [][NextVoice]_vars

(***************************************************************************)
(* generate_video_assets_node: one call.                                   *)
(***************************************************************************)
\* What a scene of the asset_plan can hold.  The asset planner's schema
\* (models/story_models.py, Assets) and the integration test give a scene a
\* list of descriptions under "video_asset"; the node's own schema is one
\* dict {type, description} under "asset" or "video_assets".
ListScenes ==
    {[key |-> k, form |-> "list", count |-> c, type |-> "", description |-> "",
      generated |-> FALSE] :
        k \in {"video_asset", "video_assets", "asset"}, c \in 0..2}

DictScenes ==
    {[key |-> k, form |-> "dict", count |-> 1, type |-> t, description |-> d,
      generated |-> g] :
        k \in {"asset", "video_assets"}, t \in {"video", "Video", "meme"},
        d \in {"", "desc", "vol/clip.mp4"}, g \in BOOLEAN}

\* asset_obj = scene.get("asset") or scene.get("video_assets"): false when
\* the scene has neither key, or an empty list under it.
HasAssetObj(scene) ==
    /\ scene.key \in {"asset", "video_assets"}
    /\ scene.form = "list" => scene.count > 0

\* asset_obj.get raises AttributeError when asset_obj is a list.
AssetObjRaises(scene) == HasAssetObj(scene) /\ scene.form = "list"

\* The tests of the collection loop a scene passes to become a task.
IsGenTask(scene) ==
    /\ HasAssetObj(scene)
    /\ LET Lower(t) == IF t = "Video" THEN "video" ELSE t   \* str(...).lower()
       IN  Lower(scene.type) = "video"
    /\ ~scene.generated
    /\ scene.description = "desc"

RECURSIVE CollectGenTasks(_, _)
CollectGenTasks(plan, scene_idx) ==
    IF scene_idx > Len(plan) THEN <<>>
    ELSE (IF IsGenTask(plan[scene_idx])
          THEN <<[scene_idx |-> scene_idx, asset_key |-> plan[scene_idx].key,
                  description |-> plan[scene_idx].description]>>
          ELSE <<>>) \o CollectGenTasks(plan, scene_idx + 1)

\* updated_plan: the scenes whose asset got a generated_video_path.
UpdatePlan(plan, generated) ==
    [i \in 1..Len(plan) |->
        IF \E k \in 1..Len(generated) : generated[k].scene_idx = i
        THEN [plan[i] EXCEPT !.generated = TRUE] ELSE plan[i]]

InitAssets ==
    /\ \E n \in 0..MaxScenes : scenes_list \in [1..n -> ListScenes \cup DictScenes]
    /\ apc = "start"
    /\ gen_tasks = <<>>
    /\ video_filenames = <<>>
    /\ updated_plan = <<>>
    /\ JobsNone
    /\ GraphNone
    /\ TimingNone
    /\ VoiceNone
    /\ EngineNone

\* `if not scenes_list`: nothing to do.
NoAssetPlan ==
    /\ apc = "start"
    /\ scenes_list = <<>>
    /\ apc' = "returned"
    /\ UNCHANGED <<scenes_list, gen_tasks, video_filenames, updated_plan>>

\* The collection loop, and `if not gen_tasks: return`.
CollectTasks ==
    /\ apc = "start"
    /\ scenes_list /= <<>>
    /\ \A i \in 1..Len(scenes_list) : ~AssetObjRaises(scenes_list[i])
    /\ gen_tasks' = CollectGenTasks(scenes_list, 1)
    /\ IF gen_tasks' = <<>>
       THEN apc' = "returned" /\ updated_plan' = scenes_list
       ELSE apc' = "collected" /\ updated_plan' = updated_plan
    /\ UNCHANGED <<scenes_list, video_filenames>>

\* The collection loop meets a list where it expects a dict.
CollectRaises ==
    /\ apc = "start"
    /\ \E i \in 1..Len(scenes_list) : AssetObjRaises(scenes_list[i])
    /\ apc' = "raised"
    /\ UNCHANGED <<scenes_list, gen_tasks, video_filenames, updated_plan>>

\* `async for filename in generate_func.starmap.aio(args)`: the node is
\* suspended until the Modal function gives the file name of the next
\* prompt, in the order of the prompts, and appends it.
ReceiveFilename ==
    /\ apc = "collected"
    /\ Len(video_filenames) < Len(gen_tasks)
    /\ video_filenames' =
           Append(video_filenames, gen_tasks[Len(video_filenames) + 1].scene_idx)
    /\ UNCHANGED <<scenes_list, apc, gen_tasks, updated_plan>>

\* The Modal function has given one file name per prompt; the plan is
\* updated and returned with the file names.  updated_plan copies the scene
\* dicts but not their asset dicts, so generated_video_path is set in the
\* assets of the plan the node was given too.
GenerateVideos ==
    /\ apc = "collected"
    /\ Len(video_filenames) = Len(gen_tasks)
    /\ updated_plan' = UpdatePlan(scenes_list, gen_tasks)
    /\ scenes_list' = UpdatePlan(scenes_list, gen_tasks)
    /\ apc' = "returned"
    /\ UNCHANGED <<gen_tasks, video_filenames>>

\* The Modal call raises while a file name is awaited, after any number of
\* them was received; it is not inside a try block, so the node raises and
\* neither the names received nor a plan are returned.
ModalRaises ==
    /\ apc = "collected"
    /\ Len(video_filenames) < Len(gen_tasks)
    /\ apc' = "raised"
    /\ UNCHANGED <<scenes_list, gen_tasks, video_filenames, updated_plan>>

NextAssets ==
    \/ NoAssetPlan /\ UNCHANGED <<timingVars, jobVars, graphVars, voiceVars, engineVars>>
    \/ CollectTasks /\ UNCHANGED <<timingVars, jobVars, graphVars, voiceVars, engineVars>>
    \/ CollectRaises /\ UNCHANGED <<timingVars, jobVars, graphVars, voiceVars, engineVars>>
    \/ ReceiveFilename /\ UNCHANGED <<timingVars, jobVars, graphVars, voiceVars, engineVars>>
    \/ GenerateVideos /\ UNCHANGED <<timingVars, jobVars, graphVars, voiceVars, engineVars>>
    \/ ModalRaises /\ UNCHANGED <<timingVars, jobVars, graphVars, voiceVars, engineVars>>

SpecAssets == InitAssets /\ [][NextAssets]_vars

(***************************************************************************)
(* The Engine: Compile and Run of one graph.  The repository hands its     *)
(* graphs to an engine it does not contain; Compile, the dispatch of the   *)
(* waves and the errors are those of the Engine's contract.                *)
(***************************************************************************)
\* The node of the research graph that has the conditional edges.
BranchSource == "agent"

\* should_continue: "respond" when the last message has no tool calls,
\* "continue" otherwise.
ShouldContinue(tool_calls) == IF ~tool_calls THEN "respond" ELSE "continue"

\* The graph build_ingestion_graph, build_main_graph, ... hand to
\* compile(): the nodes they added and their static edges.
GraphBuilder(g) ==
    [name |-> g, nodes |-> Nodes(g), edges |-> Edges(g), ends |-> {}, returns |-> {}]

\* The graph the research nodes build: three nodes, the static edges, the
\* label-to-node map of the conditional edges from the agent, and the
\* labels the router returns.
ResearchBuilder ==
    LET Target(node, route) ==
            IF ResearchEdges(node, route) = "done" THEN END ELSE ResearchEdges(node, route)
    IN  [name |-> "research",
         nodes |-> {"agent", "tools", "respond"},
         edges |-> {<<START, BranchSource>>}
                      \cup {<<n, Target(n, "respond")>> : n \in {"tools", "respond"}},
         ends |-> {<<l, Target(BranchSource, l)>> : l \in {"continue", "respond"}},
         returns |-> {ShouldContinue(tool_calls) : tool_calls \in BOOLEAN}]

\* The graphs a build function can hand to compile(): b itself, and b with
\* one slip: an edge to or from a node that was never added, an edge that
\* ends at START or starts at END, a label mapped to a node that was never
\* added, a label missing from the map, or a router that returns a label
\* the map does not have.
Slips(b) ==
    LET undeclared == "undeclared_node"
    IN  {b}
            \cup {[b EXCEPT !.edges = @ \cup {<<m, undeclared>>}] : m \in b.nodes}
            \cup {[b EXCEPT !.edges = @ \cup {<<undeclared, m>>}] : m \in b.nodes}
            \cup {[b EXCEPT !.edges = @ \cup {<<m, START>>}] : m \in b.nodes}
            \cup {[b EXCEPT !.edges = @ \cup {<<END, m>>}] : m \in b.nodes}
            \cup {[b EXCEPT !.ends = (@ \ {p}) \cup {<<p[1], undeclared>>}] : p \in b.ends}
            \cup {[b EXCEPT !.ends = @ \ {p}] : p \in b.ends}
            \cup {[b EXCEPT !.returns = @ \cup {"other"}] : p \in b.ends}

InitEngine ==
    /\ \E b \in {GraphBuilder("ingestion"), GraphBuilder("main"), ResearchBuilder} :
           builder \in Slips(b)
    /\ engine = [IdleEngine EXCEPT !.pc = "built"]
    /\ JobsNone
    /\ GraphNone
    /\ TimingNone
    /\ VoiceNone
    /\ AssetsNone

\* Mutant: Compile looks at the static edges only.
UndeclaredStaticOnly(b) ==
    ({e[1] : e \in b.edges} \cup {e[2] : e \in b.edges}) \ (b.nodes \cup {START, END})

\* The node names the edges of b reference that are not nodes of b.
Undeclared(b) ==
    ({e[1] : e \in b.edges} \cup {e[2] : e \in b.edges} \cup {p[2] : p \in b.ends})
        \ (b.nodes \cup {START, END})

\* Compile() -> ExecutableGraph, or GraphValidationError when a referenced
\* node name is undefined, START has an incoming edge or END an outgoing
\* one.  (The third reason to reject, a cycle outside the bounded loop, does
\* not arise: no graph of Slips has one.)
Compile ==
    /\ engine.pc = "built"
    /\ engine' = IF \/ Undeclared(builder) /= {}
                    \/ \E e \in builder.edges : e[2] = START \/ e[1] = END
                 THEN [engine EXCEPT !.pc = "rejected", !.error = "GraphValidationError"]
                 ELSE [engine EXCEPT !.pc = "compiled"]
    /\ UNCHANGED builder

\* The nodes the static edges lead to from the nodes of `from`.
Successors(b, from) == {e[2] : e \in {d \in b.edges : d[1] \in from}}

\* Run: the ready-queue is seeded with the nodes that follow START.
Run ==
    /\ engine.pc = "compiled"
    /\ engine' = [engine EXCEPT !.pc = "running", !.ready = Successors(builder, {START})]
    /\ UNCHANGED builder

\* A ready node is dispatched.
Dispatch(n) ==
    /\ engine.pc = "running"
    /\ n \in engine.ready
    /\ engine' = [engine EXCEPT !.ready = @ \ {n}, !.flight = @ \cup {n},
                                !.starts = @ + 1]
    /\ UNCHANGED builder

\* Mutant: a label the map does not have routes nowhere.
IsDeclaredAny(b, label) == TRUE

\* The label is one of the declared labels of the conditional edges.
IsDeclared(b, label) == label \in {p[1] : p \in b.ends}

\* The Engine after the router returned `label` when node n completed: an
\* undeclared label is UnroutableStateError, one iteration more than the
\* maximum is RecursionLimitExceeded, both fatal to the run: nothing is
\* dispatched any more.  Otherwise the target of the label is the node's
\* successor.
Routed(b, e, n, label) ==
    LET decided == [e EXCEPT !.flight = @ \ {n}, !.label = label, !.decisions = @ + 1]
        \* the labels whose target is wired back to the node that has the
        \* conditional edges: 'continue'
        LoopLabels == {p[1] : p \in {q \in b.ends : <<q[2], BranchSource>> \in b.edges}}
    IN  IF ~IsDeclared(b, label)
        THEN [decided EXCEPT !.pc = "failed", !.error = "UnroutableStateError",
                             !.ready = {}]
        ELSE IF label \in LoopLabels /\ e.loops >= RecursionLimit
        THEN [decided EXCEPT !.pc = "failed", !.error = "RecursionLimitExceeded",
                             !.ready = {}]
        ELSE [decided EXCEPT !.finished = @ \cup {n},
                             !.routed = @ \cup {p[2] : p \in {q \in b.ends : q[1] = label}},
                             !.loops = IF label \in LoopLabels THEN @ + 1 ELSE @]

\* A node in flight completes.  The conditional edges of a node are
\* evaluated once it completes.  After a failure the nodes in flight are
\* drained: they complete and nothing follows them.
Complete(n) ==
    /\ engine.pc \in {"running", "failed"}
    /\ n \in engine.flight
    /\ IF engine.pc = "running" /\ n = BranchSource /\ builder.ends /= {}
       THEN \E label \in builder.returns : engine' = Routed(builder, engine, n, label)
       ELSE engine' = [engine EXCEPT !.flight = @ \ {n},
                                     !.finished = IF engine.pc = "running"
                                                  THEN @ \cup {n} ELSE @]
    /\ UNCHANGED builder

\* A node in flight raises an unrecoverable error: nothing is dispatched any
\* more and the run fails with an error that names the node.
NodeFails(n) ==
    /\ engine.pc = "running"
    /\ n \in engine.flight
    /\ engine' = [engine EXCEPT !.pc = "failed", !.error = "PipelineError", !.node = n,
                                !.ready = {}, !.flight = @ \ {n}]
    /\ UNCHANGED builder

\* The wave is over: the successors of its nodes are ready, or the run has
\* reached END with no further ready node.
NextWave ==
    /\ engine.pc = "running"
    /\ engine.ready = {}
    /\ engine.flight = {}
    /\ LET next == (Successors(builder, engine.finished) \cup engine.routed) \ {END}
       IN  engine' = IF next = {}
                     THEN [engine EXCEPT !.pc = "completed", !.finished = {}, !.routed = {}]
                     ELSE [engine EXCEPT !.ready = next, !.finished = {}, !.routed = {}]
    /\ UNCHANGED builder

NextEngine ==
    \/ Compile /\ UNCHANGED <<timingVars, jobVars, graphVars, voiceVars, assetVars>>
    \/ Run /\ UNCHANGED <<timingVars, jobVars, graphVars, voiceVars, assetVars>>
    \/ \E n \in engine.ready : Dispatch(n) /\ UNCHANGED <<timingVars, jobVars, graphVars, voiceVars, assetVars>>
    \/ \E n \in engine.flight : Complete(n) /\ UNCHANGED <<timingVars, jobVars, graphVars, voiceVars, assetVars>>
    \/ \E n \in engine.flight : NodeFails(n) /\ UNCHANGED <<timingVars, jobVars, graphVars, voiceVars, assetVars>>
    \/ NextWave /\ UNCHANGED <<timingVars, jobVars, graphVars, voiceVars, assetVars>>

SpecEngine == InitEngine /\ [][NextEngine]_vars

\* The run of a graph is the program's main behaviour; the job store and the
\* timing reconstruction have their own specifications, SpecJobs and SpecTiming.
Spec == SpecGraphs

(***************************************************************************)
(* Properties of the timing reconstruction.                                *)
(***************************************************************************)
\* The maximal runs of consecutive non-space characters of a stream, stated
\* on the stream itself: where a run starts, where it ends, its text and
\* its rank among the runs.
RunStarts(tss) ==
    {i \in 1..Len(tss) : tss[i].character /= " " /\ (i = 1 \/ tss[i - 1].character = " ")}

RunEnd(tss, i) ==
    CHOOSE j \in i..Len(tss) :
        /\ \A k \in i..j : tss[k].character /= " "
        /\ (j = Len(tss) \/ tss[j + 1].character = " ")

RECURSIVE RunText(_, _, _)
RunText(tss, i, j) == IF i > j THEN "" ELSE tss[i].character \o RunText(tss, i + 1, j)

RunRank(tss, i) == Cardinality({r \in RunStarts(tss) : r <= i})

Grouped == tpc \in {"grouped", "bridged"}

\* The silence between word i and word i + 1 of ws.
Gap(ws, i) == ws[i + 1].start - ws[i].end

\* C6: the word list has exactly one word per maximal run of consecutive
\* non-space characters, in stream order, each word's text is that run, and
\* no word is empty (an empty stream gives an empty list).
C6_OneWordPerRun ==
    Grouped =>
        /\ Len(word_timestamps) = Cardinality(RunStarts(timestamps))
        /\ \A i \in RunStarts(timestamps) :
               word_timestamps[RunRank(timestamps, i)].word
                   = RunText(timestamps, i, RunEnd(timestamps, i))
        /\ \A k \in 1..Len(word_timestamps) : word_timestamps[k].word /= ""

\* Two words separated by two consecutive spaces have been grouped.
C6_Witness ==
    /\ tpc = "grouped"
    /\ Len(word_timestamps) = 2
    /\ \E i \in 1..(Len(timestamps) - 1) :
           timestamps[i].character = " " /\ timestamps[i + 1].character = " "

\* C7: before gap bridging, a word followed by a space ends at the end of that
\* space, and a final word with no following space ends at the end of the last
\* character of the stream.
C7_WordEndIsSpaceEnd ==
    tpc = "grouped" =>
        \A i \in RunStarts(timestamps) :
            LET j == RunEnd(timestamps, i)
                w == word_timestamps[RunRank(timestamps, i)]
            IN  /\ RunRank(timestamps, i) <= Len(word_timestamps)
                /\ IF j < Len(timestamps)
                   THEN w.end = timestamps[j + 1].end
                   ELSE w.end = timestamps[Len(timestamps)].end

\* A word closed by a space that ends later than the word's last letter, and
\* a final word flushed at the end of the stream.
C7_Witness ==
    /\ tpc = "grouped"
    /\ Len(word_timestamps) = 2
    /\ timestamps[Len(timestamps)].character /= " "
    /\ \E i \in 2..Len(timestamps) :
           /\ timestamps[i].character = " "
           /\ timestamps[i - 1].character /= " "
           /\ timestamps[i].end > timestamps[i - 1].end
           /\ word_timestamps[1].end = timestamps[i].end

\* C8 as stated: for each adjacent pair, when 0 < gap < 0.5 s the end of the
\* current word becomes the start of the next one, and otherwise (gap <= 0
\* or gap >= 0.5 s) both words of the pair keep their start and their end.
C8_PairLeftUnchanged ==
    [][(tpc = "grouped" /\ tpc' = "bridged") =>
          /\ Len(word_timestamps') = Len(word_timestamps)
          /\ \A i \in 1..(Len(word_timestamps) - 1) :
                 LET gap == word_timestamps[i + 1].start - word_timestamps[i].end
                 IN  IF 0 < gap /\ gap < 2      \* 0 < gap < 0.5 s
                     THEN word_timestamps'[i].end = word_timestamps[i + 1].start
                     ELSE /\ word_timestamps'[i] = word_timestamps[i]
                          /\ word_timestamps'[i + 1] = word_timestamps[i + 1]]_vars

\* C8, amended: the bridging pass sets the end of word i to the start of
\* word i + 1 when 0 < gap < 0.5 s, and otherwise (gap <= 0 or gap >= 0.5 s)
\* leaves word i as it was; no start and no text changes, the last word is
\* left as it was, and an end changes only by the bridging of the word's own
\* gap to its successor.
C8_BridgeOnlySmallGaps ==
    [][(tpc = "grouped" /\ tpc' = "bridged") =>
          /\ Len(word_timestamps') = Len(word_timestamps)
          /\ \A k \in 1..Len(word_timestamps) :
                 /\ word_timestamps'[k].start = word_timestamps[k].start
                 /\ word_timestamps'[k].word = word_timestamps[k].word
                 /\ k = Len(word_timestamps) => word_timestamps'[k] = word_timestamps[k]
          /\ \A i \in 1..(Len(word_timestamps) - 1) :
                 LET gap == word_timestamps[i + 1].start - word_timestamps[i].end
                 IN  IF 0 < gap /\ gap < 2      \* 0 < gap < 0.5 s
                     THEN word_timestamps'[i].end = word_timestamps[i + 1].start
                     ELSE word_timestamps'[i] = word_timestamps[i]]_vars

\* After the pass on three words: the first gap was 0.5 s and the first word
\* is as it was, the second gap was 0.25 s and the second word, the next
\* word of the first pair, now ends where the third starts.
C8_Witness ==
    /\ tpc = "bridged"
    /\ Len(word_timestamps) = 3
    /\ Gap(GroupChars(timestamps), 1) = 2
    /\ Gap(GroupChars(timestamps), 2) = 1
    /\ word_timestamps[1] = GroupChars(timestamps)[1]
    /\ word_timestamps[2].end = word_timestamps[3].start
    /\ word_timestamps[2].end = GroupChars(timestamps)[2].end + 1

\* C9: every word's start is the start of the first character of its run,
\* for streams that may hold tabs.
C9_WordStartIsFirstCharStart ==
    tpc = "grouped" =>
        \A i \in RunStarts(timestamps) :
            /\ RunRank(timestamps, i) <= Len(word_timestamps)
            /\ word_timestamps[RunRank(timestamps, i)].start = timestamps[i].start

\* A stream as C10 takes it: start <= end in every record, starts non-decreasing.
WellTimed(tss) ==
    /\ \A i \in 1..Len(tss) : tss[i].start <= tss[i].end
    /\ \A i \in 1..(Len(tss) - 1) : tss[i].start <= tss[i + 1].start

\* C10: on such a stream every word has start <= end, before and after the
\* bridging pass.
C10_StartNotAfterEnd ==
    (Grouped /\ WellTimed(timestamps)) =>
        \A k \in 1..Len(word_timestamps) :
            word_timestamps[k].start <= word_timestamps[k].end

\* After the pass, two words of a well-timed stream, the second starting
\* later than time 0.
C10_Witness ==
    /\ tpc = "bridged"
    /\ WellTimed(timestamps)
    /\ Len(word_timestamps) = 2
    /\ word_timestamps[2].start > 0

(***************************************************************************)
(* Properties of the job store.                                            *)
(***************************************************************************)
Terminal == {"COMPLETED", "FAILED", "INTERRUPTED"}

\* C3: a job's status changes only NONE -> PENDING (creation), PENDING ->
\* RUNNING, RUNNING -> COMPLETED, RUNNING -> FAILED, and RUNNING ->
\* INTERRUPTED in the startup sweep; a COMPLETED, FAILED or INTERRUPTED
\* status never changes.  (A submission whose write failed created no job:
\* its empty file is no change of a job's status.)
C3_StatusTransitions ==
    [][\A j \in JobIds :
          LET old == jobs[j].status
              new == jobs'[j].status
          IN  old /= new =>
                  \/ old = "NONE" /\ new \in {"PENDING", "UNREADABLE"}
                  \/ old = "PENDING" /\ new = "RUNNING"
                  \/ old = "RUNNING" /\ new \in {"COMPLETED", "FAILED"}
                  \/ old = "RUNNING" /\ new = "INTERRUPTED" /\ sweep.on]_vars

\* C4: when the startup sweep has run, no job is RUNNING: every job that
\* was RUNNING when the process started is INTERRUPTED, and every job that
\* was PENDING, COMPLETED, FAILED or INTERRUPTED has the status it had.
C4_SweepMarksRunning ==
    [][(sweep.on /\ alive') =>
          \A j \in JobIds :
              /\ jobs'[j].status /= "RUNNING"
              /\ sweep.found[j] = "RUNNING" => jobs'[j].status = "INTERRUPTED"
              /\ sweep.found[j] \in {"PENDING", "COMPLETED", "FAILED", "INTERRUPTED"} =>
                     jobs'[j].status = sweep.found[j]]_vars

\* C5: every submitted job eventually ends COMPLETED, FAILED or INTERRUPTED.
C5_EveryJobEnds ==
    \A j \in JobIds :
        (jobs[j].status \in {"PENDING", "RUNNING"}) ~> (jobs[j].status \in Terminal)

(***************************************************************************)
(* Properties of the graphs.                                               *)
(***************************************************************************)
\* C1: a node with more than one incoming static edge is not running unless
\* every one of its declared predecessors has returned in this run.
C1_FanInWaitsForAll ==
    \A n \in running :
        Cardinality(Preds(graph, n)) > 1 => Preds(graph, n) \subseteq completed

\* C2: in an invocation that follows a failed one on the same thread, no node
\* that returned before the failure is started again.
C2_ResumeSkipsCompleted ==
    invocation > 1 => \A n \in prior : execs[n] = 0

\* C11: two nodes of one superstep (key_concepts and summary; the two
\* research nodes; voice_and_timing, generate_video_assets and
\* generate_meme_assets) return dicts with disjoint key sets, whatever the
\* outcome of each.
C11_ConcurrentWritesDisjoint ==
    \A a, b \in done :
        a /= b => Keys(writes[a]) \cap Keys(writes[b]) = {}

\* A research node of this run caught the failure of its research run: it
\* wrote None as its analysis.
CaughtFailure ==
    <<"trends_analysis", "None">> \in state \/ <<"slang_analysis", "None">> \in state

\* C12: when a node caught its collaborator's failure and returned an output
\* with an "error" key, the run that reaches completed status has the
\* "error" key in its final State.
C12_CaughtErrorInFinalState ==
    (gstatus = "completed" /\ CaughtFailure) => "error" \in Keys(state)

\* A node function raises in this step (a superstep that ends with a
\* channel error fails after its tasks returned, with none running).
NodeRaises == gstatus = "running" /\ gstatus' = "failed" /\ running /= {}

\* After a failure of the invoked graph no node is dispatched, and when
\* run_job leaves the failed pipeline the job is FAILED with the run's error
\* recorded.
FailureStopsRunAndJob ==
    /\ (gstatus = "failed" /\ invocation > 0 /\ worker.pc = "pipeline") =>
           (execs' = execs /\ running' = {} /\ gstatus' = "failed")
    /\ (gstatus = "failed" /\ invocation > 0 /\ worker.pc = "pipeline"
            /\ worker'.pc /= "pipeline") =>
           /\ stack = <<>>
           /\ jobs'[worker.job].status = "FAILED"
           /\ jobs'[worker.job].error = gerror.type
           /\ gerror /= NoError

\* C13: when a node raises, no node is dispatched after the failure, the
\* run fails with an error that names the failing node (one of the nodes
\* that were running), and the job that started the run becomes FAILED
\* with that error recorded.
C13_ErrorNamesFailingNode ==
    [][(NodeRaises => gerror'.node \in running) /\ FailureStopsRunAndJob]_vars

\* The research run of node n ended with GraphRecursionError.
LimitExceeded(n) ==
    research[n].pc = "error" /\ research[n].err = "GraphRecursionError"

\* In the research run of node n the router returned 'continue' after every
\* agent superstep so far: the supersteps alternate between agent and tools.
OnlyContinues(n) ==
    /\ research[n].steps > 0
    /\ research[n].continues = (research[n].steps + 1) \div 2

Active(n) == research[n].pc \in {"agent", "tools", "respond"}

\* C14: the agent/tools loop is bounded by the limit of 15.  The router
\* never returns 'continue' 16 times: a run in which it returns 'continue'
\* every time ends with the recursion-limit error, it neither reaches END
\* nor goes on.  No run goes on after the superstep that follows the 15th,
\* a run that has taken more than 15 ended with an error, and every
\* superstep of a run adds to its count or ends the run, so the loop
\* terminates whatever the model and the tools do.
C14_LoopBoundedByLimit ==
    /\ [](\A n \in ResearchNodes :
            /\ research[n].continues <= RecursionLimit
            /\ research[n].steps <= RecursionLimit + 1
            /\ research[n].steps > RecursionLimit => research[n].pc = "error"
            /\ research[n].pc = "done" => research[n].steps <= RecursionLimit
            /\ (OnlyContinues(n) /\ research[n].steps >= RecursionLimit /\ ~Active(n)) =>
                   LimitExceeded(n))
    /\ [][\A n \in ResearchNodes :
             (Active(n) /\ research'[n] /= research[n]) =>
                 \/ research'[n].steps > research[n].steps
                 \/ ~Active(n)']_vars

\* A research run in which the router returned 'continue' every time: it
\* ended with the recursion-limit error.
C14_Witness ==
    \E n \in ResearchNodes :
        /\ LimitExceeded(n)
        /\ OnlyContinues(n)

\* The dict a research node returns from its except block.
CaughtOutput(n, e) ==
    IF n = "social_media_trends"
    THEN {<<"trends_analysis", "None">>, <<"trends_analysis_complete", "False">>,
          <<"error", e>>}
    ELSE {<<"slang_analysis", "None">>, <<"slang_analysis_complete", "False">>,
          <<"error", e>>}

\* C15: a research node whose research run exceeded the recursion limit does
\* not raise: it returns None as its analysis, False as its *_complete flag
\* and the error string, and the superstep after the research nodes' one
\* runs hook_concept and meme_concept.
C15_LimitIsFatalToResearchOnly ==
    [][\A n \in ResearchNodes :
          LimitExceeded(n) =>
              /\ (n \in running /\ n \notin running' /\ gstatus' = "running") =>
                     /\ n \in done'
                     /\ writes'[n] = CaughtOutput(n, "GraphRecursionError")
              /\ (n \in running /\ gstatus' = "failed") => running \ {n} /= {}
              /\ (n \in done /\ gstatus = "running" /\ gstatus' = "running"
                    /\ tasks' /= tasks) =>
                     /\ tasks' = {"hook_concept", "meme_concept"}
                     /\ <<IF n = "social_media_trends" THEN "trends_analysis"
                                                       ELSE "slang_analysis", "None">>
                           \in state']_vars

\* hook_concept and meme_concept are running after a superstep in which the
\* research run of social_media_trends exceeded the recursion limit.
C15_Witness ==
    /\ graph = "hook_meme"
    /\ LimitExceeded("social_media_trends")
    /\ running = {"hook_concept", "meme_concept"}
    /\ <<"trends_analysis", "None">> \in state

\* The keys written by the nodes that complete in this step: the dicts of
\* the tasks whose writes the step applies, and the dict of a node that
\* returns in it.
WrittenInStep ==
    UNION {Keys(writes[n]) : n \in done} \cup UNION {Keys(writes'[n]) : n \in done' \ done}

\* C16: during the run of a graph the State never loses a key, and a key
\* keeps its value across the completion of a node unless that node wrote it.
C16_StateOnlyGrows ==
    [][(stack' = stack /\ invocation' = invocation) =>
          \A p \in state :
              \/ p \in state'
              \/ p[1] \in Keys(state') /\ p[1] \in WrittenInStep]_vars

\* The stage nodes of the main graph, each with the stage before it.
StageBefore ==
    [story_studio_pipeline |-> "ingestion_pipeline",
     production_pipeline |-> "story_studio_pipeline"]

\* A wrapper node starts in this step, and the one that starts.
Invokes == Len(stack') = Len(stack) + 1

Invoked == stack'[Len(stack')].node

\* C17: the stage nodes of the main graph run in the order ingestion,
\* story studio, production; a stage starts only after the stage before it
\* has returned, its inner graph starts with the outer State, runs to END
\* (it stops before END only when a collaborator of a node fails) and the
\* stage returns the inner final State, which the outer State then holds.
C17_StagesRunInOrder ==
    [][/\ Invokes =>
              /\ Invoked \in DOMAIN StageBefore => StageBefore[Invoked] \in completed
              /\ state' = state
       /\ (stack /= <<>> /\ gstatus = "running" /\ gstatus' = "failed") =>
              gerror'.type \in {"CollaboratorError"} \cup NotCaught
       /\ (Len(stack') = Len(stack) - 1 /\ gstatus' = "running") =>
              writes'[stack[Len(stack)].node] = state]_vars

\* A node returns in this step.
Returns(n) == n \in running /\ n \notin running' /\ n \in done'

\* C18: executing a node changes nothing in place: when a node returns,
\* the dict it was called with is as it was at the call, and the State (and
\* the value of every key in it) is as it was before the node returned.
C18_NodesLeaveInputUnchanged ==
    [][\A n \in AllNodes :
          Returns(n) => (given'[n] = given[n] /\ state' = state)]_vars

\* The keys of the State that the nodes of graph g, and of the graphs its
\* wrapper nodes run, write when each of them returns, in a run invoked with
\* dict d (the ingestion nodes return the dict they were given).
RECURSIVE WrittenKeys(_, _)
WrittenKeys(g, d) ==
    UNION ({UNION {Keys(Returned(n, o, d)) \cap Schema : o \in Outcomes(g, n)} :
               n \in Nodes(g) \ Wrappers}
           \cup {WrittenKeys(h, d) :
                     h \in UNION {InnerGraphs(n) : n \in Nodes(g) \cap Wrappers}})

\* The keys of the final State of an uninterrupted run of the graph.
UninterruptedKeys == Keys(input) \cup WrittenKeys(graph, input)

\* Holds of every graph: a first invocation that completes ends with the
\* keys of an uninterrupted run.
FirstRunKeys ==
    (invocation = 1 /\ stack = <<>> /\ gstatus = "completed") =>
        Keys(state) = UninterruptedKeys

\* C19: a run that is invoked again with the same thread_id after an
\* interruption ends, unless a collaborator interrupts it again, with a
\* final State that has the keys of an uninterrupted run.
C19_ResumedRunHasSameKeys ==
    (HasCheckpointer(graph) /\ invocation > 1 /\ stack = <<>>
         /\ gstatus \in {"completed", "failed"}) =>
        \/ gstatus = "completed" /\ Keys(state) = UninterruptedKeys
        \/ gstatus = "failed" /\ gerror.type \in {"CollaboratorError"} \cup NotCaught

(***************************************************************************)
(* Properties of voice_and_timing_node.                                    *)
(***************************************************************************)
\* The numbers of the scenes that have a non-empty dialogue_vo.
NarratedScenes == {i \in 1..Len(scenes) : scenes[i].dialogue_vo /= ""}

\* The call reached its synthesis loop and returned.
Synthesized == vpc = "returned" /\ elevenlabs_api_key /\ NarratedScenes /= {}

\* C20: when voice_and_timing_node has gone through its scenes, the
\* voice_timing it returns has exactly one record per scene with a
\* non-empty dialogue_vo, in scene order, and a record that carries an error
\* has duration 0 and no audio path; a failed scene does not keep the other
\* scenes from getting their records.
C20_OneRecordPerNarratedScene ==
    Synthesized =>
        /\ Len(voice_timing_results) = Cardinality(NarratedScenes)
        /\ \A k \in 1..Len(voice_timing_results) :
               LET r == voice_timing_results[k]
               IN  /\ \E i \in NarratedScenes :
                          /\ Cardinality({j \in NarratedScenes : j <= i}) = k
                          /\ r.scene_id = scenes[i].scene_number
                   /\ "error" \in DOMAIN r =>
                          r.duration_seconds = 0 /\ r.audio_path = "None"

(***************************************************************************)
(* Properties of generate_video_assets_node.                               *)
(***************************************************************************)
\* The asset_plan lists video descriptions as the asset planner and the
\* integration test do: a scene with a non-empty video_asset list.
ListsVideoDescriptions ==
    \E i \in 1..Len(scenes_list) :
        /\ scenes_list[i].key = "video_asset"
        /\ scenes_list[i].form = "list"
        /\ scenes_list[i].count > 0

\* C23: given an asset_plan whose scenes list video asset descriptions,
\* generate_video_assets_node returns video_filenames with at least one
\* file name, one per asset submitted for generation.
C23_VideoFilenamesPerAsset ==
    (apc = "returned" /\ ListsVideoDescriptions) =>
        /\ Len(video_filenames) > 0
        /\ Len(video_filenames) = Len(gen_tasks)

(***************************************************************************)
(* Properties of the graphs: executions, inputs and the research protocol. *)
(***************************************************************************)
\* C24: in an uninterrupted run no node of the graph starts more than once,
\* and when the run has completed every node of the graph has started
\* exactly once.
C24_EveryNodeExactlyOnce ==
    (invocation = 1 /\ stack = <<>>) =>
        \A n \in Nodes(graph) :
            /\ execs[n] <= 1
            /\ gstatus = "completed" => execs[n] = 1

\* The State keys the function of node n of graph g reads (state.get).
Reads(g, n) ==
    CASE n \in IngestionNodes -> {"ingestion"}
      [] n = "audience_and_style_profiler" -> {"summary", "language", "session_id"}
      [] n = "scene_by_scene_script" ->
             {"summary", "key_concepts", "hook_ideas", "meme_concepts", "language"}
      [] n = "asset_planner" -> {"scenes"}
      [] n = "social_media_trends" -> {"pages", "summary"}
      [] n = "language_slang" -> {"language", "summary"}
      [] n \in {"hook_concept", "meme_concept"} ->
             {"audience_profile", "style_profile", "summary", "trend_analysis",
              "slang_analysis"}
      [] n = "voice_and_timing" ->
             IF g = "production" THEN {"scenes", "audience_profile", "language"}
             ELSE {"scenes"}
      [] n = "generate_video_assets" -> {"asset_plan", "session_id"}
      [] n \in {"generate_sfx", "generate_meme_assets"} -> {"asset_plan"}
      [] n = "video_editor_renderer" ->
             IF g = "production"
             THEN {"scenes", "asset_plan", "voice_timing", "session_id", "generated_memes"}
             ELSE {}
      [] n = "qc_and_safety" -> IF g = "production" THEN {"video_timeline"} ELSE {}
      [] n = "deliver_export" ->
             IF g = "production" THEN {"video_timeline", "qc_notes"} ELSE {}
      [] OTHER -> {}

\* Node n starts in this step.
Starts(n) == n \in running' \ running

\* C27: whenever a node starts, every key it reads is in the State under
\* that name, put there by the initial State or by the return of a node
\* that completed earlier in the run.
C27_ReadsWereWritten ==
    [][\A n \in AllNodes : Starts(n) => Reads(graph, n) \subseteq Keys(state)]_vars

(***************************************************************************)
(* Further properties of the job store and the worker.                     *)
(***************************************************************************)
RunningJobs == {j \in JobIds : jobs[j].status = "RUNNING"}

\* C25: at every moment at most one job has the status RUNNING, whatever
\* the jobs submitted and the crashes and restarts of the process.
C25_AtMostOneRunning == Cardinality(RunningJobs) <= 1


\* C26: a job becomes COMPLETED only when the worker ran it and its
\* pipeline call returned a State whose video_timeline names a video file
\* that exists, after the file was copied; a COMPLETED job has an
\* output_local_path and progress 1.0, and a FAILED job has an error.
C26_CompletedMeansVideo ==
    [][\A j \in JobIds :
          /\ (jobs'[j].status = "COMPLETED" /\ jobs[j].status /= "COMPLETED") =>
                 /\ worker.job = j
                 /\ worker.pc = "copied"
                 /\ worker.result.video_path /= "None"
                 /\ worker.result.exists
          /\ jobs'[j].status = "COMPLETED" =>
                 jobs'[j].output_local_path /= "None" /\ jobs'[j].progress = 100
          /\ jobs'[j].status = "FAILED" => jobs'[j].error /= "None"]_vars

\* One job completed and another failed.
C26_Witness ==
    /\ \E j \in JobIds : jobs[j].status = "COMPLETED" /\ jobs[j].output_local_path /= "None"
    /\ \E j \in JobIds : jobs[j].status = "FAILED" /\ jobs[j].error /= "None"

(***************************************************************************)
(* Properties of the audio cache of voice_and_timing_node.                 *)
(***************************************************************************)
\* The loop handles one entry of scene_vo_data in this step.
HandlesScene == InLoop /\ position' = position + 1

\* The entry is answered from the cache: its record is the cached one and
\* speech synthesis is not called.
ReusesCachedRecord ==
    /\ metadata[Current.scene_number].status = "cached"
    /\ voice_timing_results' =
           Append(voice_timing_results, metadata[Current.scene_number].data)
    /\ synthesis_calls' = synthesis_calls

\* The voice_timing of an execution in which every scene got its audio.
FullySuccessful(voice_timing) ==
    /\ voice_timing /= <<>>
    /\ \A k \in 1..Len(voice_timing) : "error" \notin DOMAIN voice_timing[k]

\* The second execution has returned after a fully successful first one.
SecondExecutionReturned ==
    execution = 2 /\ vpc = "returned" /\ FullySuccessful(previous)

\* C28: a scene's cached record is reused, without a synthesis call, exactly
\* when its audio and metadata files exist, the metadata has word_timestamps
\* and its text equals the scene's text after trimming; and a second
\* execution on the same scenes after a fully successful first execution
\* calls no synthesis and returns the records of the first.
C28_CacheReuse ==
    [][/\ HandlesScene => (ReusesCachedRecord <=> CacheHit(Current))
       /\ SecondExecutionReturned' =>
              (synthesis_calls' = 0 /\ voice_timing_results' = previous')]_vars

(***************************************************************************)
(* Further properties of the timing reconstruction.                        *)
(***************************************************************************)
\* C29: after the bridging pass no adjacent pair of words has a gap strictly
\* between 0 and 0.5 s, so a second pass changes nothing; the pass keeps the
\* number of words, every word's text and start, and lowers no word's end.
C29_BridgeIsIdempotent ==
    tpc = "bridged" =>
        LET grouped == GroupChars(timestamps)
        IN  /\ \A i \in 1..(Len(word_timestamps) - 1) :
                   ~(0 < Gap(word_timestamps, i) /\ Gap(word_timestamps, i) < GapThreshold)
            /\ BridgeGaps(word_timestamps) = word_timestamps
            /\ Len(word_timestamps) = Len(grouped)
            /\ \A k \in 1..Len(grouped) :
                   /\ word_timestamps[k].word = grouped[k].word
                   /\ word_timestamps[k].start = grouped[k].start
                   /\ word_timestamps[k].end >= grouped[k].end

\* After the pass on two words: the first was extended over a gap of 0.25 s
\* and now ends where the second starts.
C29_Witness ==
    /\ tpc = "bridged"
    /\ Len(word_timestamps) = 2
    /\ Gap(GroupChars(timestamps), 1) = 1
    /\ Gap(word_timestamps, 1) = 0
    /\ word_timestamps[1].end = GroupChars(timestamps)[1].end + 1

(***************************************************************************)
(* Further properties of the research runs.                                *)
(***************************************************************************)
\* Node x of the research graph of node n runs in this step.
Runs(n, x) ==
    /\ research[n].pc = x
    /\ research'[n].steps = research[n].steps + 1
    /\ ~LimitReached(research[n].steps)

\* The agent step of this step left a last message with tool calls.
WithToolCalls(n) == research'[n].continues = research[n].continues + 1

ReturnsUndeclaredLabel ==
    /\ engine'.decisions > engine.decisions
    /\ \A p \in builder.ends : p[1] /= engine'.label

UnroutableState == engine.pc = "failed" /\ engine.error = "UnroutableStateError"

\* C21: when a router returns a label that is not in its declared
\* label-to-node map, the run ends with the unroutable-state error, and
\* after that routing decision no node is dispatched: the run stays failed
\* with that error.
C21_UndeclaredLabelStopsRun ==
    [][/\ ReturnsUndeclaredLabel => UnroutableState'
       /\ UnroutableState =>
              /\ UnroutableState'
              /\ engine'.starts = engine.starts
              /\ engine'.flight \subseteq engine.flight
              /\ engine'.ready = {}]_vars

\* The router of the research graph returned 'continue', which the map of a
\* graph built without that label does not have: the run failed after its
\* agent node had run.
C21_Witness ==
    /\ UnroutableState
    /\ builder.name = "research"
    /\ engine.label \in {ShouldContinue(tool_calls) : tool_calls \in BOOLEAN}
    /\ engine.label \notin {p[1] : p \in builder.ends}
    /\ engine.starts > 0
    /\ engine.ready = {}

\* Some static edge endpoint or conditional-edge target of the graph names
\* a node that was never added.
NamesUnknownNode(b) ==
    \/ \E e \in b.edges : e[1] \notin b.nodes \cup {START} \/ e[2] \notin b.nodes \cup {END}
    \/ \E p \in b.ends : p[2] \notin b.nodes \cup {END}

\* C22: compiling a graph in which an edge names a node that was never
\* added fails at construction time (GraphValidationError), so that no
\* node of such a graph is ever dispatched.
C22_CompileRejectsUndeclared ==
    NamesUnknownNode(builder) =>
        /\ engine.pc \in {"built", "rejected"}
        /\ engine.pc = "rejected" => engine.error = "GraphValidationError"
        /\ engine.starts = 0
        /\ engine.ready = {} /\ engine.flight = {}

\* Compile rejected the research graph whose label 'continue' is mapped to
\* a node that was never added.
C22_Witness ==
    /\ engine.pc = "rejected"
    /\ engine.error = "GraphValidationError"
    /\ \E p \in builder.ends : p[1] = "continue" /\ p[2] \notin builder.nodes \cup {END}
    /\ engine.starts = 0

====
